---- MODULE Spec2Model ----
(***************************************************************************)
(* A model of the Ollama chat extension: the response stream decoder of    *)
(* OllamaClient.chatStream, the ChatManager session store, the             *)
(* ContextTracker and the OllamaChatProvider message handlers.             *)
(*                                                                         *)
(* Text is modelled as a sequence of one-character strings.  An optional   *)
(* value (undefined or a value) is a sequence of length 0 or 1.            *)
(***************************************************************************)
EXTENDS Integers, Sequences, FiniteSets, TLC

VARIABLES
  \* ---- OllamaClient.chatStream, one call
  payload,        \* the bytes of the response body, fixed by the server
  inputLines,     \* the lines the server wrote (payload = lines joined by NL)
  rest,           \* the bytes not yet returned by reader.read()
  decoderPending, \* TextDecoder: a lead byte is waiting for its continuation
  buffer,         \* let buffer
  yielded,        \* the chunks yielded so far, in order
  dpc,            \* "fetch" | "reading" | "done" | "threw" | "returned"
  splitMid,       \* history: some read ended inside a line
  requests,       \* how many times fetch was called
  thrown,         \* the error chatStream threw (<<>> if none)
  reader,         \* the body's reader: "none" | "open" | "closed"
  chatResult      \* what chat() resolved with (<<>> if it has not)

decVars ==
  <<payload, inputLines, rest, decoderPending, buffer, yielded, dpc, splitMid,
    requests, thrown, reader, chatResult>>

VARIABLES
  \* ---- ChatManager
  chats,          \* private chats: Chat[]
  activeId,       \* private activeId: string | null (<<>> is null)
  storage,        \* globalState 'ollama-chats': the value last written
  uuidCount,      \* how many identifiers uuid() has produced
  clock,          \* the wall clock (new Date(), Date.now()), in ticks
  \* ---- ContextTracker
  tokenCounts,    \* private tokenCounts: Map<string, {used, total}>
  \* ---- history
  event,          \* the operation or handler step that produced this state
  budget          \* how many more operations / user actions the run takes

storeVars == <<chats, activeId, storage, uuidCount, clock>>

VARIABLES
  \* ---- OllamaChatProvider and the webview
  selectedModel,  \* private selectedModel
  models,         \* private models (their names)
  toHost,         \* messages the webview posted, not yet received by the host
  toWebview,      \* messages the host posted, not yet received by the webview
  isStreaming,    \* the webview's state.isStreaming
  init,           \* initialize(): where it waits, and its locals
  turns,          \* the handleSendMessage calls in flight, with their locals
  selects,        \* the selectModel handlers waiting for getModelInfo
  turnCount,      \* how many turns were started
  chunksLeft      \* how many more chunks the server streams in this run

orchVars ==
  <<selectedModel, models, toHost, toWebview, isStreaming, init, turns, selects,
    turnCount, chunksLeft>>

VARIABLES
  \* ---- the keybindings helpers
  keybindingsFile \* the user's keybindings.json: whether it exists, and its lines

fileVars == <<keybindingsFile>>

vars == <<decVars, storeVars, tokenCounts, event, budget, orchVars, fileVars>>

(***************************************************************************)
(* Bounds                                                                  *)
(***************************************************************************)
MaxLines == 3
MaxSeed == 3
MaxOps == 2
MaxClock == 1
MaxUserActs == 2
MaxChunks == 2

(***************************************************************************)
(* The parts of the state a specification does not use stay as they are.   *)
(***************************************************************************)
IdleDecoder ==
  /\ payload = <<>> /\ inputLines = <<>> /\ rest = <<>> /\ decoderPending = FALSE
  /\ buffer = <<>> /\ yielded = <<>> /\ dpc = "idle" /\ splitMid = FALSE
  /\ requests = 0 /\ thrown = <<>> /\ reader = "none" /\ chatResult = <<>>

IdleStore ==
  /\ chats = <<>> /\ activeId = <<>> /\ storage = <<>> /\ uuidCount = 0 /\ clock = 0

IdleTracker == tokenCounts = {}

IdleFile == keybindingsFile = [exists |-> FALSE, lines |-> <<>>]

IdleHandlers ==
  /\ selectedModel = "" /\ models = <<>> /\ toHost = <<>> /\ toWebview = <<>>
  /\ isStreaming = FALSE /\ init = [pc |-> "idle"] /\ turns = <<>> /\ selects = <<>>
  /\ turnCount = 0 /\ chunksLeft = 0

(***************************************************************************)
(* Helpers on sequences                                                    *)
(***************************************************************************)
RECURSIVE Flatten(_)
Flatten(ss) == IF ss = <<>> THEN <<>> ELSE Head(ss) \o Flatten(Tail(ss))

RECURSIVE SeqsUpTo(_, _)
SeqsUpTo(S, n) ==
  IF n = 0 THEN {<<>>}
  ELSE LET shorter == SeqsUpTo(S, n - 1)
       IN  shorter \cup {Append(s, x) : s \in {t \in shorter : Len(t) = n - 1}, x \in S}

(***************************************************************************)
(* Bytes and characters.  "C3" "A9" are the two bytes of the character e   *)
(* (e acute), which stands for a content fragment; "?" is U+FFFD.          *)
(***************************************************************************)
NL == "\n"
SP == " "
LeadByte == "C3"
ContByte == "A9"
Replacement == "?"

\* new TextDecoder(); decoder.decode(value, {stream: true}) on one read:
\* the text produced and whether a lead byte is kept for the next read.
RECURSIVE DecodeFrom(_, _)
DecodeFrom(pending, bytes) ==
  IF bytes = <<>> THEN [text |-> <<>>, pending |-> pending]
  ELSE LET b == Head(bytes)
       IN  IF pending
           THEN IF b = ContByte
                THEN LET r == DecodeFrom(FALSE, Tail(bytes))
                     IN  [r EXCEPT !.text = <<"e">> \o @]
                ELSE LET r == DecodeFrom(FALSE, bytes)
                     IN  [r EXCEPT !.text = <<Replacement>> \o @]
           ELSE IF b = LeadByte
                THEN DecodeFrom(TRUE, Tail(bytes))
                ELSE LET r == DecodeFrom(FALSE, Tail(bytes))
                     IN  [r EXCEPT !.text =
                            <<IF b = ContByte THEN Replacement ELSE b>> \o @]

\* String.prototype.split('\n'): always at least one piece.
RECURSIVE SplitNL(_)
SplitNL(s) ==
  IF \A i \in 1..Len(s) : s[i] # NL THEN <<s>>
  ELSE LET k == CHOOSE i \in 1..Len(s) : s[i] = NL /\ \A j \in 1..(i - 1) : s[j] # NL
       IN  <<SubSeq(s, 1, k - 1)>> \o SplitNL(SubSeq(s, k + 1, Len(s)))

\* String.prototype.trim()
RECURSIVE TrimLeft(_)
TrimLeft(s) == IF s # <<>> /\ Head(s) = SP THEN TrimLeft(Tail(s)) ELSE s

RECURSIVE TrimRight(_)
TrimRight(s) ==
  IF s # <<>> /\ s[Len(s)] = SP THEN TrimRight(SubSeq(s, 1, Len(s) - 1)) ELSE s

Trim(s) == TrimRight(TrimLeft(s))

(***************************************************************************)
(* JSON.parse on a line, over the texts the model's server can write:      *)
(* null, {} and an object with one member.  The member "e" is              *)
(* message.content, "t" is message.thinking, "d" is done:true with         *)
(* prompt_eval_count and eval_count.                                       *)
(***************************************************************************)
Members == {"e", "t", "d", "z"}
Malformed == [kind |-> "SyntaxError"]

JSONparse(line) ==
  LET t == Trim(line)
  IN  IF t = <<"n">> THEN [kind |-> "null"]
      ELSE IF t = <<"{", "}">> THEN [kind |-> "object", member |-> <<>>]
      ELSE IF Len(t) = 3 /\ t[1] = "{" /\ t[3] = "}" /\ t[2] \in Members
      THEN [kind |-> "object", member |-> <<t[2]>>]
      ELSE Malformed

\* The object literal of the yield: chunk.message?.content || '', ...
ChatChunk(value) ==
  LET m == IF value.kind = "object" THEN value.member ELSE <<>>
  IN  [content      |-> IF m = <<"e">> THEN <<"e">> ELSE <<>>,
       thinking     |-> IF m = <<"t">> THEN <<"t">> ELSE <<>>,
       done         |-> m \in {<<"d">>, <<"z">>},
       promptTokens |-> IF m = <<"d">> THEN <<10>> ELSE IF m = <<"z">> THEN <<0>> ELSE <<>>,
       evalTokens   |-> IF m = <<"d">> THEN <<5>> ELSE IF m = <<"z">> THEN <<7>> ELSE <<>>]

\* The try block around JSON.parse and the yield, with its catch: what is
\* yielded for one non-blank line, and whether an exception escapes.
\* Reading chunk.message of null throws a TypeError inside the try.
TryLineNoCatch(line) ==
  LET v == JSONparse(line)
  IN  IF v = Malformed \/ v.kind = "null"
      THEN [out |-> <<>>, threw |-> TRUE]
      ELSE [out |-> <<ChatChunk(v)>>, threw |-> FALSE]

TryLine(line) ==
  LET v == JSONparse(line)
  IN  IF v = Malformed \/ v.kind = "null"
      THEN [out |-> <<>>, threw |-> FALSE]
      ELSE [out |-> <<ChatChunk(v)>>, threw |-> FALSE]

\* for (const line of lines) { if (!line.trim()) continue; try ... }
RECURSIVE ForLines(_)
ForLines(lines) ==
  IF lines = <<>> THEN [out |-> <<>>, threw |-> FALSE]
  ELSE IF Trim(Head(lines)) = <<>> THEN ForLines(Tail(lines))
  ELSE LET r == TryLine(Head(lines))
       IN  IF r.threw THEN r
           ELSE LET more == ForLines(Tail(lines))
                IN  [out |-> r.out \o more.out, threw |-> more.threw]

\* lines.pop() || ''
PopDropsTail(lines) == <<>>

Pop(lines) == lines[Len(lines)]

\* One iteration of the while loop on a read that returned `bytes`.
ReadStep(pending, buf, bytes) ==
  LET d     == DecodeFrom(pending, bytes)
      lines == SplitNL(buf \o d.text)
      r     == ForLines(SubSeq(lines, 1, Len(lines) - 1))
  IN  [pending |-> d.pending, buffer |-> Pop(lines), out |-> r.out, threw |-> r.threw]

\* After the loop: if (buffer.trim()) { try ... }
FinalStep(buf) ==
  IF Trim(buf) = <<>> THEN [out |-> <<>>, threw |-> FALSE] ELSE TryLine(buf)

(***************************************************************************)
(* The response bodies of the model: up to MaxLines lines, the last one    *)
(* terminated by a newline or not.                                         *)
(***************************************************************************)
LineTexts ==
  { <<>>,                                  \* an empty line
    <<SP>>,                                \* a whitespace line
    <<"{", LeadByte, ContByte, "}">>,      \* a content fragment
    <<SP, "{", "t", "}", SP>>,             \* a thinking fragment, padded
    <<"{", "d", "}">>,                     \* the completion record
    <<"{", "z", "}">>,                     \* a record with a prompt count of 0
    <<"{", LeadByte>>,                     \* a truncated record
    <<"n">> }                              \* null

RECURSIVE JoinLines(_)
JoinLines(ls) ==
  IF ls = <<>> THEN <<>>
  ELSE IF Len(ls) = 1 THEN Head(ls)
  ELSE Head(ls) \o <<NL>> \o JoinLines(Tail(ls))

Body(ls, terminated) ==
  IF ls = <<>> THEN <<>> ELSE JoinLines(ls) \o (IF terminated THEN <<NL>> ELSE <<>>)

InitDecoder ==
  /\ inputLines \in SeqsUpTo(LineTexts, MaxLines)
  /\ \E terminated \in BOOLEAN : payload = Body(inputLines, terminated)
  /\ rest = payload
  /\ decoderPending = FALSE
  /\ buffer = <<>>
  /\ yielded = <<>>
  /\ dpc = "fetch"
  /\ splitMid = FALSE
  /\ requests = 0
  /\ thrown = <<>>
  /\ reader = "none"
  /\ chatResult = <<>>
  /\ IdleStore
  /\ IdleTracker
  /\ IdleHandlers
  /\ IdleFile
  /\ event = [kind |-> "none"]
  /\ budget = 0

\* The statuses the server answers the chat request with.
Statuses == {200, 404, 500}

ResOkAlways(status) == TRUE

\* res.ok
ResOk(status) == status >= 200 /\ status <= 299

\* throw new Error(`Ollama API error: ${res.status} ${res.statusText}`)
ApiError(status) == [name |-> "Error", status |-> status]

\* const res = await fetch(...) answers; if (!res.ok) throw ...; getReader()
Fetch ==
  /\ dpc = "fetch"
  /\ requests' = requests + 1
  /\ \E status \in Statuses :
       /\ event' = [kind |-> "fetch", status |-> status]
       /\ IF ResOk(status)
          THEN dpc' = "reading" /\ reader' = "open" /\ thrown' = thrown
          ELSE dpc' = "threw" /\ reader' = reader /\ thrown' = <<ApiError(status)>>
  /\ UNCHANGED <<payload, inputLines, rest, decoderPending, buffer, yielded, splitMid,
                 chatResult, storeVars, tokenCounts, budget, orchVars, fileVars>>

\* chat(): the accumulators of the for await loop over the chunks
RECURSIVE ChatFrom(_, _)
ChatFrom(acc, chunks) ==
  IF chunks = <<>> THEN acc
  ELSE LET c == Head(chunks)
       IN  ChatFrom([content      |-> acc.content \o c.content,
                     thinking     |-> acc.thinking \o c.thinking,
                     promptTokens |-> IF c.promptTokens # <<>> /\ c.promptTokens[1] # 0
                                      THEN c.promptTokens[1] ELSE acc.promptTokens,
                     evalTokens   |-> IF c.evalTokens # <<>> /\ c.evalTokens[1] # 0
                                      THEN c.evalTokens[1] ELSE acc.evalTokens],
                    Tail(chunks))

Chat(chunks) ==
  ChatFrom([content |-> <<>>, thinking |-> <<>>, promptTokens |-> 0, evalTokens |-> 0],
           chunks)

\* const { done, value } = await reader.read() with done false: the next
\* k bytes of the body, then one iteration of the loop.
Read ==
  /\ dpc = "reading"
  /\ rest # <<>>
  /\ \E k \in 1..Len(rest) :
       LET r == ReadStep(decoderPending, buffer, SubSeq(rest, 1, k))
       IN  /\ rest' = SubSeq(rest, k + 1, Len(rest))
           /\ decoderPending' = r.pending
           /\ buffer' = r.buffer
           /\ yielded' = yielded \o r.out
           /\ dpc' = IF r.threw THEN "threw" ELSE "reading"
           /\ splitMid' = (splitMid \/ (k < Len(rest) /\ (r.buffer # <<>> \/ r.pending)))
           /\ event' = [kind |-> "read", yields |-> Len(r.out)]
  /\ UNCHANGED <<payload, inputLines, requests, thrown, reader, chatResult,
                 storeVars, tokenCounts, budget, orchVars, fileVars>>

\* reader.read() returns done: break, then the remaining buffer.
ReadDone ==
  /\ dpc = "reading"
  /\ rest = <<>>
  /\ LET r == FinalStep(buffer)
     IN  /\ yielded' = yielded \o r.out
         /\ dpc' = IF r.threw THEN "threw" ELSE "done"
         /\ chatResult' = IF r.threw THEN <<>> ELSE <<Chat(yielded \o r.out)>>
  /\ reader' = "closed"
  /\ event' = [kind |-> "readDone"]
  /\ UNCHANGED <<payload, inputLines, rest, decoderPending, buffer, splitMid,
                 requests, thrown>>
  /\ UNCHANGED <<storeVars, tokenCounts, budget, orchVars, fileVars>>

\* The consumer leaves its for await loop at a chunk the last read yielded:
\* the generator returns at that yield.  chatStream has no finally block, so
\* nothing cancels the reader.
Abandon ==
  /\ dpc = "reading"
  /\ event.kind = "read"
  /\ event.yields > 0
  /\ dpc' = "returned"
  /\ event' = [kind |-> "abandon"]
  /\ UNCHANGED <<payload, inputLines, rest, decoderPending, buffer, yielded, splitMid,
                 requests, thrown, reader, chatResult>>
  /\ UNCHANGED <<storeVars, tokenCounts, budget, orchVars, fileVars>>

NextDecoder == Fetch \/ Read \/ ReadDone \/ Abandon

SpecDecoder == InitDecoder /\ [][NextDecoder]_vars

\* The chunks of a body that arrives in a single read.
DecodeWhole(bytes) ==
  IF bytes = <<>> THEN FinalStep(<<>>).out
  ELSE LET r == ReadStep(FALSE, <<>>, bytes)
       IN  r.out \o FinalStep(r.buffer).out

\* The text of a line the server wrote, and the lines that are blank,
\* malformed, or parse as a JSON value.
LineText(l) == DecodeFrom(FALSE, l).text
IsBlank(l) == Trim(LineText(l)) = <<>>
IsMalformed(l) == ~IsBlank(l) /\ JSONparse(LineText(l)) = Malformed
ParsesAsJSON(l) == ~IsBlank(l) /\ JSONparse(LineText(l)) # Malformed
YieldsChunk(l) == ParsesAsJSON(l) /\ JSONparse(LineText(l)).kind # "null"

\* C1: whatever the reads were, a finished chatStream has yielded the chunks
\* of the whole body arriving in a single read, and the same chunks as the
\* body with its blank lines left out.
C1_SplitInvariance ==
  dpc = "done" =>
    /\ yielded = DecodeWhole(payload)
    /\ yielded = DecodeWhole(Body(SelectSeq(inputLines, LAMBDA l : ~IsBlank(l)), TRUE))

\* C1 witness: a finished stream some read of which ended inside a record,
\* with at least two chunks yielded and a blank line in the body.
C1_Witness ==
  /\ dpc = "done"
  /\ splitMid
  /\ Len(yielded) >= 2
  /\ \E i \in 1..Len(inputLines) : IsBlank(inputLines[i])

\* C2: a malformed line raises nothing and is skipped: once the body is
\* being read chatStream does not throw, and the chunks are those of the body
\* without its malformed lines.
C2_MalformedSkipped ==
  /\ reader # "none" => dpc # "threw"
  /\ dpc = "done" =>
       yielded = DecodeWhole(Body(SelectSeq(inputLines, LAMBDA l : ~IsMalformed(l)), TRUE))

\* C2 witness: a malformed line between two lines that yield a chunk, and
\* exactly their two chunks yielded.
C2_Witness ==
  /\ dpc = "done"
  /\ Len(inputLines) = 3
  /\ YieldsChunk(inputLines[1])
  /\ IsMalformed(inputLines[2])
  /\ YieldsChunk(inputLines[3])
  /\ yielded = <<ChatChunk(JSONparse(LineText(inputLines[1]))),
                 ChatChunk(JSONparse(LineText(inputLines[3])))>>

\* C3 as claimed: one chunk for every non-blank line that parses as a JSON
\* value, in the order of the lines.
C3_OneChunkPerParsedLine ==
  dpc = "done" =>
    LET parsed == SelectSeq(inputLines, ParsesAsJSON)
    IN  /\ Len(yielded) = Len(parsed)
        /\ \A i \in 1..Len(parsed) :
             yielded[i] = ChatChunk(JSONparse(LineText(parsed[i])))

\* C4 as claimed: at the end of the stream a non-blank buffer is yielded as
\* the last chunk if it parses and skipped if not; a blank one yields nothing.
C4_FinalRecord ==
  [][(dpc = "reading" /\ rest = <<>> /\ dpc' \in {"done", "threw"}) =>
       yielded' = yielded \o
         (IF Trim(buffer) = <<>> \/ JSONparse(buffer) = Malformed
          THEN <<>> ELSE <<ChatChunk(JSONparse(buffer))>>)]_vars

\* C21: when the server answers with a status that is not a success,
\* chatStream has thrown an error that carries the status, has yielded no
\* chunk and has called fetch once; it never calls fetch twice.
C21_RequestFailed ==
  /\ requests <= 1
  /\ (event.kind = "fetch" /\ event.status \notin 200..299) =>
       /\ dpc = "threw"
       /\ thrown = <<[name |-> "Error", status |-> event.status]>>
  /\ thrown # <<>> =>
       /\ dpc = "threw"
       /\ yielded = <<>>
       /\ requests = 1
       /\ reader = "none"

\* C21 witness: the server answered 500 to the request for a body that
\* holds a record.
C21_Witness ==
  /\ dpc = "threw"
  /\ thrown = <<[name |-> "Error", status |-> 500]>>
  /\ \E i \in 1..Len(inputLines) : YieldsChunk(inputLines[i])

\* C22: when the consumer has abandoned the sequence, the body's stream is
\* closed.
C22_AbandonCloses == dpc = "returned" => reader = "closed"

\* The last count the chunks carry, 0 if none does.
RECURSIVE LastCount(_, _)
LastCount(chunks, field) ==
  IF chunks = <<>> THEN 0
  ELSE IF chunks[Len(chunks)][field] # <<>> THEN chunks[Len(chunks)][field][1]
  ELSE LastCount(SubSeq(chunks, 1, Len(chunks) - 1), field)

\* C23: chat() resolves with the concatenated content and reasoning text of
\* the chunks of the stream, and with the prompt and evaluation counts of the
\* last chunk that carried each, 0 if none did.
C23_Chat ==
  chatResult # <<>> =>
    /\ chatResult[1].content = Flatten([k \in 1..Len(yielded) |-> yielded[k].content])
    /\ chatResult[1].thinking = Flatten([k \in 1..Len(yielded) |-> yielded[k].thinking])
    /\ chatResult[1].promptTokens = LastCount(yielded, "promptTokens")
    /\ chatResult[1].evalTokens = LastCount(yielded, "evalTokens")

(***************************************************************************)
(* ChatManager (chatManager.ts)                                            *)
(***************************************************************************)
Null == <<>>
ChatDefaultTotal == 4096
TitleLimit == 40
DefaultTitle == <<"N", "e", "w", " ", "C", "h", "a", "t">>
Ellipsis == <<".", ".", ".">>

\* this.chats.find(c => c.id === id): the index of the first match, 0 if none
RECURSIVE FindFrom(_, _, _)
FindFrom(cs, id, i) ==
  IF i > Len(cs) THEN 0 ELSE IF cs[i].id = id THEN i ELSE FindFrom(cs, id, i + 1)

Find(cs, id) == FindFrom(cs, id, 1)

\* the pointer is left at null
FirstIdNone(cs) == Null

\* this.chats[0]?.id || null
FirstId(cs) == IF cs = <<>> THEN Null ELSE <<cs[1].id>>

\* JSON serialisation of a Date and new Date(string)
ToISO(t) == [iso |-> t]
FromISO(s) == s.iso

StoredMessage(m) == [m EXCEPT !.timestamp = ToISO(@)]
StoredChat(c) ==
  [c EXCEPT !.createdAt = ToISO(@),
            !.messages = [i \in 1..Len(c.messages) |-> StoredMessage(c.messages[i])]]

\* private save(): this.context.globalState.update('ollama-chats', this.chats)
Save(cs) == [i \in 1..Len(cs) |-> StoredChat(cs[i])]

LoadAtEpoch(data) ==
  LET cs == [i \in 1..Len(data) |->
               [data[i] EXCEPT
                  !.createdAt = 0,
                  !.messages = [j \in 1..Len(data[i].messages) |->
                                  [data[i].messages[j] EXCEPT !.timestamp = 0]]]]
  IN  [chats |-> cs, activeId |-> FirstId(cs), saved |-> FALSE]

\* private load()
Load(data) ==
  LET cs == [i \in 1..Len(data) |->
               [data[i] EXCEPT
                  !.createdAt = FromISO(@),
                  !.messages = [j \in 1..Len(data[i].messages) |->
                                  [data[i].messages[j] EXCEPT !.timestamp = FromISO(@)]]]]
  IN  [chats |-> cs, activeId |-> FirstId(cs), saved |-> FALSE]

\* Every operation below takes the manager's state st = [chats, activeId] and
\* gives the state after it, with saved: whether it called save().
CreateChatPushes(st, model, id, now) ==
  LET chat == [id |-> id, title |-> DefaultTitle, model |-> model, createdAt |-> now,
               messages |-> <<>>, contextUsed |-> 0, contextTotal |-> ChatDefaultTotal]
  IN  [chats |-> Append(st.chats, chat), activeId |-> <<id>>, saved |-> TRUE]

CreateChat(st, model, id, now) ==
  LET chat == [id |-> id, title |-> DefaultTitle, model |-> model, createdAt |-> now,
               messages |-> <<>>, contextUsed |-> 0, contextTotal |-> ChatDefaultTotal]
  IN  [chats |-> <<chat>> \o st.chats, activeId |-> <<id>>, saved |-> TRUE]

GetActive(st) ==
  IF st.activeId = Null THEN 0 ELSE Find(st.chats, st.activeId[1])

SetActiveUnchecked(st, id) == [chats |-> st.chats, activeId |-> <<id>>, saved |-> FALSE]

SetActive(st, id) ==
  [chats |-> st.chats,
   activeId |-> IF Find(st.chats, id) # 0 THEN <<id>> ELSE st.activeId,
   saved |-> FALSE]

RenameChatKeepsBlank(st, id, title) ==
  LET i == Find(st.chats, id)
  IN  IF i = 0 THEN [chats |-> st.chats, activeId |-> st.activeId, saved |-> FALSE]
      ELSE [chats |-> [st.chats EXCEPT ![i].title = Trim(title)],
            activeId |-> st.activeId, saved |-> TRUE]

RenameChat(st, id, title) ==
  LET i == Find(st.chats, id)
  IN  IF i = 0 THEN [chats |-> st.chats, activeId |-> st.activeId, saved |-> FALSE]
      ELSE [chats |-> [st.chats EXCEPT ![i].title =
                         IF Trim(title) = <<>> THEN DefaultTitle ELSE Trim(title)],
            activeId |-> st.activeId, saved |-> TRUE]

DeleteChatKeepsActive(st, id) ==
  [chats |-> SelectSeq(st.chats, LAMBDA c : c.id # id),
   activeId |-> st.activeId, saved |-> TRUE]

DeleteChatAlwaysMoves(st, id) ==
  LET left == SelectSeq(st.chats, LAMBDA c : c.id # id)
  IN  [chats |-> left, activeId |-> FirstId(left), saved |-> TRUE]

DeleteChatPicksOldest(st, id) ==
  LET left == SelectSeq(st.chats, LAMBDA c : c.id # id)
  IN  [chats |-> left,
       activeId |-> IF st.activeId = <<id>>
                    THEN (IF left = <<>> THEN Null ELSE <<left[Len(left)].id>>)
                    ELSE st.activeId,
       saved |-> TRUE]

DeleteChat(st, id) ==
  LET left == SelectSeq(st.chats, LAMBDA c : c.id # id)
  IN  [chats |-> left,
       activeId |-> IF st.activeId = <<id>> THEN FirstId(left) ELSE st.activeId,
       saved |-> TRUE]

\* content.slice(0, 40) + (content.length > 40 ? '...' : '')
TitleOf(content) ==
  LET c == Trim(content)
  IN  SubSeq(c, 1, IF Len(c) < TitleLimit THEN Len(c) ELSE TitleLimit)
        \o (IF Len(c) > TitleLimit THEN Ellipsis ELSE <<>>)

AddMessageTitlesEveryUser(st, chatId, msg) ==
  LET i == Find(st.chats, chatId)
  IN  IF i = 0 THEN [chats |-> st.chats, activeId |-> st.activeId, saved |-> FALSE]
      ELSE [chats |-> [st.chats EXCEPT
                         ![i].messages = Append(@, msg),
                         ![i].title = IF msg.role = "user" THEN TitleOf(msg.content) ELSE @],
            activeId |-> st.activeId, saved |-> TRUE]

AddMessageUnshifts(st, chatId, msg) ==
  LET i == Find(st.chats, chatId)
  IN  IF i = 0 THEN [chats |-> st.chats, activeId |-> st.activeId, saved |-> FALSE]
      ELSE [chats |-> [st.chats EXCEPT ![i].messages = <<msg>> \o @],
            activeId |-> st.activeId, saved |-> TRUE]

AddMessage(st, chatId, msg) ==
  LET i == Find(st.chats, chatId)
  IN  IF i = 0 THEN [chats |-> st.chats, activeId |-> st.activeId, saved |-> FALSE]
      ELSE LET pushed == Append(st.chats[i].messages, msg)
               titled == IF Len(pushed) = 1 /\ msg.role = "user"
                         THEN TitleOf(msg.content) ELSE st.chats[i].title
           IN  [chats |-> [st.chats EXCEPT ![i].messages = pushed, ![i].title = titled],
                activeId |-> st.activeId, saved |-> TRUE]

UpdateContext(st, chatId, used, total) ==
  LET i == Find(st.chats, chatId)
  IN  IF i = 0 THEN [chats |-> st.chats, activeId |-> st.activeId, saved |-> FALSE]
      ELSE [chats |-> [st.chats EXCEPT ![i].contextUsed = used, ![i].contextTotal = total],
            activeId |-> st.activeId, saved |-> TRUE]

UpdateModelUnsaved(st, chatId, model) ==
  LET i == Find(st.chats, chatId)
  IN  [chats |-> IF i = 0 THEN st.chats ELSE [st.chats EXCEPT ![i].model = model],
       activeId |-> st.activeId, saved |-> FALSE]

UpdateModel(st, chatId, model) ==
  LET i == Find(st.chats, chatId)
  IN  IF i = 0 THEN [chats |-> st.chats, activeId |-> st.activeId, saved |-> FALSE]
      ELSE [chats |-> [st.chats EXCEPT ![i].model = model],
            activeId |-> st.activeId, saved |-> TRUE]

ClearAllChats(st) == [chats |-> <<>>, activeId |-> Null, saved |-> TRUE]

\* String.prototype.toLowerCase on the letters the model's texts hold
LowerCase(c) ==
  IF c = "C" THEN "c" ELSE IF c = "H" THEN "h" ELSE IF c = "I" THEN "i"
  ELSE IF c = "N" THEN "n" ELSE c

ToLowerCase(s) == [k \in 1..Len(s) |-> LowerCase(s[k])]

\* String.prototype.includes
Includes(s, q) == \E i \in 0..(Len(s) - Len(q)) : SubSeq(s, i + 1, i + Len(q)) = q

\* the messages are not searched
SearchChatsTitleOnly(st, query) ==
  LET q == Trim(ToLowerCase(query))
  IN  IF q = <<>> THEN st.chats
      ELSE SelectSeq(st.chats, LAMBDA c : Includes(ToLowerCase(c.title), q))

\* searchChats(query): Chat[]
SearchChats(st, query) ==
  LET q == Trim(ToLowerCase(query))
  IN  IF q = <<>> THEN st.chats
      ELSE SelectSeq(st.chats,
             LAMBDA c : \/ Includes(ToLowerCase(c.title), q)
                        \/ \E k \in 1..Len(c.messages) :
                             Includes(ToLowerCase(c.messages[k].content), q))

\* 86400000 ms
DayMs == 86400000

\* new Date(now.getFullYear(), now.getMonth(), now.getDate()): the local
\* midnight that starts the day of now, midnights being the instants at
\* which the local days of the time zone start.
LocalMidnight(now, midnights) ==
  CHOOSE m \in midnights : m <= now /\ \A n \in midnights : n <= now => n <= m

\* getChatsGroupedByDate(): ChatsGroupedByDate
GetChatsGroupedByDate(cs, now, midnights) ==
  LET today     == LocalMidnight(now, midnights)
      yesterday == today - DayMs
  IN  [today     |-> SelectSeq(cs, LAMBDA c : c.createdAt >= today),
       yesterday |-> SelectSeq(cs, LAMBDA c : c.createdAt >= yesterday /\ c.createdAt < today),
       older     |-> SelectSeq(cs, LAMBDA c : c.createdAt < yesterday)]

\* The manager's state, and the effect of an operation on the variables.
Store == [chats |-> chats, activeId |-> activeId]

Becomes(r) ==
  /\ chats' = r.chats
  /\ activeId' = r.activeId
  /\ storage' = IF r.saved THEN Save(r.chats) ELSE storage

(***************************************************************************)
(* What globalState holds when the extension starts: the collection a      *)
(* previous run saved, n sessions with the most recently created first.    *)
(* The oldest one holds a finished turn.                                   *)
(***************************************************************************)
Hi == <<"h", "i">>
Ok == <<"o", "k">>

SeedChat(i) ==
  [id |-> i, title |-> IF i = 1 THEN Hi ELSE DefaultTitle, model |-> "A",
   createdAt |-> 0,
   messages |-> IF i = 1
                THEN << [role |-> "user", content |-> Hi, thinking |-> <<>>,
                         thinkingTime |-> <<>>, timestamp |-> 0],
                        [role |-> "assistant", content |-> Ok, thinking |-> <<>>,
                         thinkingTime |-> <<>>, timestamp |-> 0] >>
                ELSE <<>>,
   contextUsed |-> IF i = 1 THEN 15 ELSE 0,
   contextTotal |-> IF i = 1 THEN 8192 ELSE ChatDefaultTotal]

SeedStorage(n) == Save([i \in 1..n |-> SeedChat(n + 1 - i)])

\* constructor(context) { this.load(); }
Constructed(n) ==
  /\ storage = SeedStorage(n)
  /\ chats = Load(storage).chats
  /\ activeId = Load(storage).activeId
  /\ uuidCount = n
  /\ clock = 0

(***************************************************************************)
(* The store on its own: its operations called in any order with any       *)
(* arguments, the identifier of a session that never existed included.     *)
(***************************************************************************)
ModelNames == {"A", "B"}
TitleInputs == {<<SP>>, <<SP, "x", SP>>}
Xs(n) == [k \in 1..n |-> "x"]
MessageInputs ==
  { [role |-> "user", content |-> <<SP, "h", "i", SP>>, thinking |-> <<>>,
     thinkingTime |-> <<>>],
    [role |-> "user", content |-> <<SP>> \o Xs(TitleLimit) \o <<SP>>, thinking |-> <<>>,
     thinkingTime |-> <<>>],
    [role |-> "user", content |-> Xs(TitleLimit + 1), thinking |-> <<>>,
     thinkingTime |-> <<>>],
    [role |-> "assistant", content |-> Ok, thinking |-> <<<<"t">>>>,
     thinkingTime |-> <<1>>] }
UsageInputs == {<<15, 8192>>}
IdInputs == 1..(uuidCount + 1)

InitStore ==
  /\ \E n \in 0..MaxSeed : Constructed(n)
  /\ event = [kind |-> "constructed"]
  /\ budget = MaxOps
  /\ IdleDecoder
  /\ IdleFile
  /\ IdleTracker
  /\ IdleHandlers

\* save() drops the promise globalState.update returns: the caller of the
\* operation is handed nothing, whether the write is rejected or not.
SaveReports(rejected) == FALSE

\* One call of an operation: the event records the call, the state before
\* it, whether the write of save() was rejected and whether the caller saw it.
Op(ev, r) ==
  /\ budget > 0
  /\ budget' = budget - 1
  /\ Becomes(r)
  /\ \E rejected \in (IF r.saved THEN BOOLEAN ELSE {FALSE}) :
       event' = ev @@ [before |-> Store, saved |-> r.saved, rejected |-> rejected,
                       reported |-> (r.saved /\ SaveReports(rejected))]
  /\ UNCHANGED <<clock, tokenCounts, decVars, orchVars, fileVars>>

StoreCreateChat ==
  \E m \in ModelNames :
    /\ Op([kind |-> "createChat", id |-> uuidCount + 1, model |-> m], CreateChat(Store, m, uuidCount + 1, clock))
    /\ uuidCount' = uuidCount + 1

StoreSetActive ==
  \E id \in IdInputs : Op([kind |-> "setActive", id |-> id], SetActive(Store, id)) /\ UNCHANGED uuidCount

StoreRenameChat ==
  \E id \in IdInputs, t \in TitleInputs :
    Op([kind |-> "renameChat", id |-> id, title |-> t], RenameChat(Store, id, t)) /\ UNCHANGED uuidCount

StoreDeleteChat ==
  \E id \in IdInputs :
    Op([kind |-> "deleteChat", id |-> id, wasActive |-> (activeId = <<id>>)], DeleteChat(Store, id))
    /\ UNCHANGED uuidCount

StoreAddMessage ==
  \E id \in IdInputs, m \in MessageInputs :
    /\ Op([kind |-> "addMessage", id |-> id, msg |-> m @@ [timestamp |-> clock]],
          AddMessage(Store, id, m @@ [timestamp |-> clock]))
    /\ UNCHANGED uuidCount

StoreUpdateContext ==
  \E id \in IdInputs, u \in UsageInputs :
    /\ Op([kind |-> "updateContext", id |-> id, used |-> u[1], total |-> u[2]],
          UpdateContext(Store, id, u[1], u[2]))
    /\ UNCHANGED uuidCount

StoreUpdateModel ==
  \E id \in IdInputs, m \in ModelNames :
    Op([kind |-> "updateModel", id |-> id, model |-> m], UpdateModel(Store, id, m))
    /\ UNCHANGED uuidCount

QueryInputs ==
  {<<>>, <<SP>>, <<"H", "I">>, <<"c", "h">>, <<"o", "k">>, <<"i", SP>>}

StoreSearchChats ==
  \E q \in QueryInputs :
    Op([kind |-> "searchChats", query |-> q, result |-> SearchChats(Store, q)],
       [chats |-> chats, activeId |-> activeId, saved |-> FALSE])
    /\ UNCHANGED uuidCount

StoreClearAllChats ==
  Op([kind |-> "clearAllChats"], ClearAllChats(Store)) /\ UNCHANGED uuidCount

\* The extension is restarted: a new ChatManager loads what was saved.
StoreLoad ==
  Op([kind |-> "load"], Load(storage)) /\ UNCHANGED uuidCount

Tick ==
  /\ clock < MaxClock
  /\ clock' = clock + 1
  /\ event' = [kind |-> "tick"]
  /\ UNCHANGED <<chats, activeId, storage, uuidCount, tokenCounts, budget, decVars,
                 orchVars, fileVars>>

NextStore ==
  \/ StoreCreateChat \/ StoreSetActive \/ StoreRenameChat \/ StoreDeleteChat
  \/ StoreAddMessage \/ StoreUpdateContext \/ StoreUpdateModel
  \/ StoreSearchChats \/ StoreClearAllChats \/ StoreLoad \/ Tick

SpecStore == InitStore /\ [][NextStore]_vars

\* the sessions whose identifier is the active pointer
ActiveSessions == {i \in 1..Len(chats) : <<chats[i].id>> = activeId}

\* C10: the active pointer is none, or the identifier of exactly one session
\* of the store.
C10_ActivePointer == activeId = Null \/ Cardinality(ActiveSessions) = 1

\* C10 witness: the active session was deleted while others remained, and
\* the pointer moved to one of them.
C10_Witness ==
  /\ event.kind = "deleteChat"
  /\ event.wasActive
  /\ Len(chats) >= 1
  /\ activeId # Null

(***************************************************************************)
(* Properties of the operations of the store.  The event holds the call    *)
(* and the manager's state before it.                                      *)
(***************************************************************************)
\* The index of a session in the collection before the call, 0 if none.
Was(id) == Find(event.before.chats, id)

\* The collection without its i-th session.
Dropped(cs, i) == SubSeq(cs, 1, i - 1) \o SubSeq(cs, i + 1, Len(cs))

\* No session of the collection was created after its first one.
NewestFirst(cs) ==
  \A k \in 1..Len(cs) : cs[1].createdAt >= cs[k].createdAt /\ cs[1].id >= cs[k].id

IsPrefix(a, b) == Len(a) <= Len(b) /\ SubSeq(b, 1, Len(a)) = a

\* C11: deleteChat(id) removes the session with that id and keeps the others
\* in their order; an active session that was deleted is replaced by the first
\* remaining one, which no remaining session is more recent than, or by none
\* if no session remains; another active session stays active.
C11_DeleteChat ==
  event.kind = "deleteChat" =>
    /\ Find(chats, event.id) = 0
    /\ chats = IF Was(event.id) = 0 THEN event.before.chats
               ELSE Dropped(event.before.chats, Was(event.id))
    /\ IF event.before.activeId = <<event.id>>
       THEN IF chats = <<>> THEN activeId = Null
            ELSE activeId = <<chats[1].id>> /\ NewestFirst(chats)
       ELSE activeId = event.before.activeId

\* C11 witness: the active session of three, not the most recent one, was
\* deleted.
C11_Witness ==
  /\ event.kind = "deleteChat"
  /\ Len(event.before.chats) = 3
  /\ event.before.activeId = <<event.id>>
  /\ Was(event.id) = 2
  /\ activeId = <<event.before.chats[1].id>>

\* C12: createChat(model) puts one new session in front of the existing ones,
\* which are unchanged; its identifier is not one of theirs, its title is
\* 'New Chat', its log is empty, its usage is 0 of 4096, and it is active.
C12_CreateChat ==
  event.kind = "createChat" =>
    /\ Len(chats) = Len(event.before.chats) + 1
    /\ Tail(chats) = event.before.chats
    /\ Find(event.before.chats, chats[1].id) = 0
    /\ chats[1].title = <<"N", "e", "w", " ", "C", "h", "a", "t">>
    /\ chats[1].model = event.model
    /\ chats[1].messages = <<>>
    /\ chats[1].contextUsed = 0
    /\ chats[1].contextTotal = 4096
    /\ activeId = <<chats[1].id>>

\* C12 witness: a session was created in a store that held another, active
\* one.
C12_Witness ==
  /\ event.kind = "createChat"
  /\ Len(event.before.chats) >= 1
  /\ event.before.activeId = <<event.before.chats[1].id>>
  /\ Len(chats) = Len(event.before.chats) + 1

\* C13: for every session that is in the store before and after an operation,
\* the log before it is a prefix of the log after it, and only addMessage on
\* that session makes it longer, by the message it was given.
C13_AppendOnly ==
  event.kind \notin {"constructed", "tick"} =>
    \A i \in 1..Len(event.before.chats) :
      LET old == event.before.chats[i]
          j   == Find(chats, old.id)
      IN  j # 0 =>
            /\ IsPrefix(old.messages, chats[j].messages)
            /\ chats[j].messages =
                 IF event.kind = "addMessage" /\ event.id = old.id
                 THEN Append(old.messages, event.msg) ELSE old.messages

\* C13 witness: a message was added to a session that already held two.
C13_Witness ==
  /\ event.kind = "addMessage"
  /\ Was(event.id) # 0
  /\ Len(event.before.chats[Was(event.id)].messages) = 2
  /\ Len(chats[Find(chats, event.id)].messages) = 3

\* C14: addMessage on a session gives it a title exactly when the message is
\* the first of the log and its role is user: the trimmed content if that has
\* at most 40 characters, else its first 40 characters and '...'.  Otherwise
\* the title stays.
C14_AutoTitle ==
  (event.kind = "addMessage" /\ Was(event.id) # 0) =>
    LET old   == event.before.chats[Was(event.id)]
        t     == Trim(event.msg.content)
        first == old.messages = <<>> /\ event.msg.role = "user"
    IN  chats[Find(chats, event.id)].title =
          IF ~first THEN old.title
          ELSE IF Len(t) <= 40 THEN t
          ELSE SubSeq(t, 1, 40) \o <<".", ".", ".">>

\* C14 witness: the first message of a session was a user message of 41
\* characters, and the title has 43.
C14_Witness ==
  /\ event.kind = "addMessage"
  /\ Was(event.id) # 0
  /\ event.before.chats[Was(event.id)].messages = <<>>
  /\ event.msg.role = "user"
  /\ Len(Trim(event.msg.content)) = 41
  /\ Len(chats[Find(chats, event.id)].title) = 43

\* C15: renameChat, deleteChat, addMessage, updateContext and updateModel with
\* an identifier that no session has leave the collection and the active
\* pointer as they were.
C15_NotFoundNoOp ==
  ( /\ event.kind \in {"renameChat", "deleteChat", "addMessage", "updateContext",
                       "updateModel"}
    /\ Was(event.id) = 0 ) =>
    /\ chats = event.before.chats
    /\ activeId = event.before.activeId

\* C15 witness: deleteChat with an unknown identifier, on a store whose
\* active session is not the first one.
C15_Witness ==
  /\ event.kind = "deleteChat"
  /\ Was(event.id) = 0
  /\ Len(chats) >= 2
  /\ activeId = <<chats[2].id>>

\* C16: setActive(id) makes id the active pointer if a session has it and
\* leaves the pointer otherwise; the collection does not change.
C16_SetActive ==
  event.kind = "setActive" =>
    /\ chats = event.before.chats
    /\ activeId = IF Was(event.id) # 0 THEN <<event.id>> ELSE event.before.activeId

\* C16 witness: setActive moved the pointer from one session to another.
C16_Witness ==
  /\ event.kind = "setActive"
  /\ Was(event.id) # 0
  /\ event.before.activeId # <<event.id>>
  /\ activeId = <<event.id>>

\* C17: renameChat(id, title) on an existing session sets its title to the
\* trimmed input, or to 'New Chat' if that is empty, and changes nothing else.
C17_RenameChat ==
  (event.kind = "renameChat" /\ Was(event.id) # 0) =>
    /\ chats = [event.before.chats EXCEPT ![Was(event.id)].title =
                  IF Trim(event.title) = <<>>
                  THEN <<"N", "e", "w", " ", "C", "h", "a", "t">>
                  ELSE Trim(event.title)]
    /\ activeId = event.before.activeId

\* C17 witness: a session titled otherwise was renamed with a blank title.
C17_Witness ==
  /\ event.kind = "renameChat"
  /\ Was(event.id) # 0
  /\ Trim(event.title) = <<>>
  /\ event.before.chats[Was(event.id)].title = Hi
  /\ chats[Find(chats, event.id)].title = DefaultTitle

Mutations ==
  {"createChat", "renameChat", "deleteChat", "addMessage", "updateContext",
   "updateModel", "clearAllChats"}

\* C18: after every mutating operation the value last handed to globalState
\* is the serialised current collection, and an operation that changed the
\* collection has handed it over itself.
C18_Persisted ==
  event.kind \in Mutations =>
    /\ storage = Save(chats)
    /\ Len(storage) = Len(chats)
    /\ chats # event.before.chats => event.saved

\* C18 witness: updateModel changed the model of a session, and the stored
\* collection holds the new model.
C18_Witness ==
  /\ event.kind = "updateModel"
  /\ Was(event.id) # 0
  /\ event.before.chats[Was(event.id)].model # event.model
  /\ storage[Was(event.id)].model = event.model

\* C19: a manager constructed from what another one saved holds the same
\* sessions in the same order, with the same titles, models, messages, usage
\* and timestamps, and its active session is the first one, or none if there
\* is no session.
C19_RoundTrip ==
  /\ event.kind \in {"constructed", "load"} =>
       /\ Save(chats) = storage
       /\ activeId = IF chats = <<>> THEN Null ELSE <<chats[1].id>>
  /\ event.kind = "load" => chats = event.before.chats

\* C19 witness: a manager with two sessions, the second one active and
\* holding messages, was replaced by one that loaded what it had saved.
C19_Witness ==
  /\ event.kind = "load"
  /\ Len(chats) = 2
  /\ event.before.activeId = <<chats[2].id>>
  /\ chats[2].messages # <<>>
  /\ activeId = <<chats[1].id>>

\* C20: when the write of save() is rejected, the caller of the mutation is
\* told.
C20_WriteFailureReported ==
  (event.kind \in Mutations /\ event.saved /\ event.rejected) => event.reported

\* The text holds q at some position, letters compared without their case.
ContainsFolded(text, q) ==
  \E i \in 0..(Len(text) - Len(q)) :
    \A k \in 1..Len(q) : LowerCase(text[i + k]) = LowerCase(q[k])

\* The session's title or one of its messages holds q.
Matches(c, q) ==
  \/ ContainsFolded(c.title, q)
  \/ \E k \in 1..Len(c.messages) : ContainsFolded(c.messages[k].content, q)

\* C32 as amended: searchChats(query) returns, in store order, exactly the
\* sessions whose title or one of whose message contents holds the query
\* without its leading and trailing whitespace, letters compared without
\* their case; all sessions when nothing is left of the query; and it leaves
\* the store as it was.
C32_SearchChats ==
  event.kind = "searchChats" =>
    /\ event.result =
         IF Trim(event.query) = <<>> THEN chats
         ELSE SelectSeq(chats, LAMBDA c : Matches(c, Trim(event.query)))
    /\ chats = event.before.chats
    /\ activeId = event.before.activeId
    /\ ~event.saved

\* C32 witness: a search found one session, by a message and not by its
\* title, and left out another session.
C32_Witness ==
  /\ event.kind = "searchChats"
  /\ event.query = <<"o", "k">>
  /\ Len(chats) >= 2
  /\ Len(event.result) = 1
  /\ ~ContainsFolded(event.result[1].title, event.query)

\* C32 as stated: the sessions returned are exactly those whose title or one
\* of whose message contents holds the query itself.
C32_Original ==
  event.kind = "searchChats" =>
    /\ event.result =
         IF Trim(event.query) = <<>> THEN chats
         ELSE SelectSeq(chats, LAMBDA c : Matches(c, event.query))
    /\ chats = event.before.chats
    /\ activeId = event.before.activeId

\* C33: getActive() returns none exactly if the store holds no session.
C33_ActiveUnlessEmpty == (GetActive(Store) = 0) <=> (chats = <<>>)

\* C33 witness: the active session was deleted, sessions are left, and
\* getActive() returns one of them.
C33_Witness ==
  /\ event.kind = "deleteChat"
  /\ event.wasActive
  /\ Find(event.before.chats, event.id) # 0
  /\ chats # <<>>
  /\ GetActive(Store) # 0

(***************************************************************************)
(* getChatsGroupedByDate on its own: a store of sessions created at the    *)
(* instants below, grouped at some instant of a day whose local midnight   *)
(* is instant 0, the day before having 23, 24 or 25 hours (the days on     *)
(* which the clocks of the time zone are moved, and the others).           *)
(***************************************************************************)
CreatedInputs == {-180000000, -90000000, -86400000, -82800000, -1, 0, 43200000}
NowInputs == {0, 43200000}
DayLengths == {82800000, 86400000, 90000000}

\* The local midnights around instant 0 when the day before has this length.
Midnights(dayBefore) == {0 - dayBefore - DayMs, 0 - dayBefore, 0, DayMs}

GroupChat(i, createdAt) == [SeedChat(2) EXCEPT !.id = i, !.createdAt = createdAt]

\* Stores as createChat builds them: the newest session first.
GroupStores ==
  {cs \in SeqsUpTo(CreatedInputs, MaxSeed) :
     \A i \in 1..(Len(cs) - 1) : cs[i] >= cs[i + 1]}

InitGroups ==
  /\ \E cs \in GroupStores, now \in NowInputs :
       /\ \A i \in 1..Len(cs) : cs[i] <= now
       /\ chats = [i \in 1..Len(cs) |-> GroupChat(Len(cs) + 1 - i, cs[i])]
       /\ activeId = FirstId(chats)
       /\ uuidCount = Len(cs)
       /\ clock = now
  /\ storage = <<>>
  /\ event = [kind |-> "constructed"]
  /\ budget = 1
  /\ IdleDecoder
  /\ IdleFile
  /\ IdleTracker
  /\ IdleHandlers

GroupByDate ==
  \E dayBefore \in DayLengths :
    /\ budget > 0
    /\ budget' = budget - 1
    /\ event' = [kind |-> "grouped", midnights |-> Midnights(dayBefore),
                 groups |-> GetChatsGroupedByDate(chats, clock, Midnights(dayBefore))]
    /\ UNCHANGED <<storeVars, tokenCounts, decVars, orchVars, fileVars>>

NextGroups == GroupByDate

SpecGroups == InitGroups /\ [][NextGroups]_vars

\* The local midnight before this one.
MidnightBefore(m, midnights) ==
  CHOOSE p \in midnights : p < m /\ \A n \in midnights : n < m => n <= p

\* C31: the groups are the sessions created at or after today's local
\* midnight, those created at or after yesterday's local midnight and before
\* today's, and the others, each in store order.
C31_GroupedByDate ==
  event.kind = "grouped" =>
    LET today     == LocalMidnight(clock, event.midnights)
        yesterday == MidnightBefore(today, event.midnights)
    IN  /\ event.groups.today = SelectSeq(chats, LAMBDA c : c.createdAt >= today)
        /\ event.groups.yesterday =
             SelectSeq(chats, LAMBDA c : c.createdAt >= yesterday /\ c.createdAt < today)
        /\ event.groups.older = SelectSeq(chats, LAMBDA c : c.createdAt < yesterday)

(***************************************************************************)
(* Arithmetic of IEEE 754 doubles on the values getUsage computes.  A      *)
(* positive double is [m, e]: the bits of its significand, most            *)
(* significant first and at most 53, and the exponent of the last bit; its *)
(* value is m * 2^e.  Zero has no bits.                                    *)
(***************************************************************************)
Precision == 53

RECURSIVE BitsOf(_)
BitsOf(n) == IF n = 0 THEN <<>> ELSE Append(BitsOf(n \div 2), n % 2)

RECURSIVE ToNat(_)
ToNat(bits) ==
  IF bits = <<>> THEN 0 ELSE 2 * ToNat(SubSeq(bits, 1, Len(bits) - 1)) + bits[Len(bits)]

\* bits + 1, one bit longer if every bit was 1
RECURSIVE Inc(_)
Inc(bits) ==
  IF bits = <<>> THEN <<1>>
  ELSE IF bits[Len(bits)] = 0 THEN [bits EXCEPT ![Len(bits)] = 1]
  ELSE Append(Inc(SubSeq(bits, 1, Len(bits) - 1)), 0)

AnyOne(bits) == \E k \in 1..Len(bits) : bits[k] = 1

\* Round to nearest, ties to even: the exact value is bits * 2^e plus, if
\* sticky, something below the last bit.
RoundBits(bits, e, sticky) ==
  IF Len(bits) <= Precision THEN [m |-> bits, e |-> e]
  ELSE LET kept  == SubSeq(bits, 1, Precision)
           guard == bits[Precision + 1]
           below == sticky \/ AnyOne(SubSeq(bits, Precision + 2, Len(bits)))
           up    == guard = 1 /\ (below \/ kept[Precision] = 1)
           e2    == e + (Len(bits) - Precision)
           r     == IF up THEN Inc(kept) ELSE kept
       IN  IF Len(r) > Precision
           THEN [m |-> SubSeq(r, 1, Precision), e |-> e2 + 1]
           ELSE [m |-> r, e |-> e2]

\* The bits of the quotient by long division, until Precision + 1 of them
\* follow the first 1.
RECURSIVE DivBits(_, _, _, _)
DivBits(sig, r, t, f) ==
  IF Len(sig) > Precision \/ (r = 0 /\ sig # <<>>)
  THEN [bits |-> sig, e |-> 0 - f, sticky |-> r # 0]
  ELSE LET bit == IF 2 * r >= t THEN 1 ELSE 0
       IN  DivBits(IF sig = <<>> /\ bit = 0 THEN <<>> ELSE Append(sig, bit),
                   (2 * r) % t, t, f + 1)

\* used / total
DoubleDiv(u, t) ==
  IF u = 0 THEN [m |-> <<>>, e |-> 0]
  ELSE LET d == DivBits(BitsOf(u \div t), u % t, t, 0)
       IN  RoundBits(d.bits, d.e, d.sticky)

\* bits * k + carry, for a small k (the carry is never negative)
RECURSIVE MulBits(_, _, _)
MulBits(bits, k, carry) ==
  IF bits = <<>> \/ carry < 0 THEN BitsOf(carry)
  ELSE LET v == bits[Len(bits)] * k + carry
       IN  Append(MulBits(SubSeq(bits, 1, Len(bits) - 1), k, v \div 2), v % 2)

\* x * k
DoubleMul(x, k) ==
  IF x.m = <<>> THEN x ELSE RoundBits(MulBits(x.m, k, 0), x.e, FALSE)

\* Math.round(x): the nearest integer, a half going up
MathRound(x) ==
  LET n == Len(x.m) + x.e      \* how many bits are before the point
  IN  IF x.m = <<>> THEN 0
      ELSE IF x.e >= 0 THEN ToNat(x.m) * (2 ^ x.e)
      ELSE IF n < 0 THEN 0
      ELSE ToNat(SubSeq(x.m, 1, n)) + x.m[n + 1]

PercentTenths(used, total) ==
  LET q == DoubleDiv(used, total)
  IN  IF q.m = <<>> THEN 0
      ELSE LET x == DoubleMul(q, 1000)
           IN  IF x.m = <<>> THEN 0 ELSE MathRound(x)

(***************************************************************************)
(* ContextTracker (contextTracker.ts).  The map is the set of its entries, *)
(* at most one for an identifier.                                          *)
(***************************************************************************)
TrackerDefaultTotal == 4096

TrackerGet(tc, chatId) == {r \in tc : r.id = chatId}

\* update adds to what the snapshot held
TrackerUpdateAdds(tc, chatId, promptTokens, evalTokens, total) ==
  {r \in tc : r.id # chatId}
    \cup {[id |-> chatId,
           used |-> promptTokens + evalTokens
                      + (IF TrackerGet(tc, chatId) = {} THEN 0
                         ELSE (CHOOSE r \in TrackerGet(tc, chatId) : TRUE).used),
           total |-> total]}

TrackerUpdate(tc, chatId, promptTokens, evalTokens, total) ==
  {r \in tc : r.id # chatId}
    \cup {[id |-> chatId, used |-> promptTokens + evalTokens, total |-> total]}

\* setTotal starts the snapshot again
TrackerSetTotalResets(tc, chatId, total) ==
  {r \in tc : r.id # chatId} \cup {[id |-> chatId, used |-> 0, total |-> total]}

TrackerSetTotal(tc, chatId, total) ==
  IF TrackerGet(tc, chatId) # {}
  THEN {IF r.id = chatId THEN [r EXCEPT !.total = total] ELSE r : r \in tc}
  ELSE tc \cup {[id |-> chatId, used |-> 0, total |-> total]}

\* reset leaves the snapshot where it is
TrackerResetKeeps(tc, chatId) == tc

\* reset(chatId): this.tokenCounts.delete(chatId)
TrackerReset(tc, chatId) == {r \in tc : r.id # chatId}

\* getUsage(chatId).  The percent is held in tenths: the code divides the
\* rounded value by 10.
GetUsage(tc, chatId) ==
  IF TrackerGet(tc, chatId) = {}
  THEN [percent |-> 0, used |-> 0, total |-> TrackerDefaultTotal]
  ELSE LET data == CHOOSE r \in TrackerGet(tc, chatId) : TRUE
       IN  [percent |-> PercentTenths(data.used, data.total),
            used |-> data.used, total |-> data.total]

(***************************************************************************)
(* The tracker on its own: its operations called in any order, for two     *)
(* sessions, with the counts and capacities below.                         *)
(***************************************************************************)
TrackerIds == {1, 2}
CountInputs == {<<0, 0>>, <<10, 5>>, <<1000, 24>>, <<8000, 500>>, <<64000, 64>>}
TotalInputs == {4096, 128000, 204800}

InitTracker ==
  /\ tokenCounts = {}
  /\ event = [kind |-> "constructed"]
  /\ budget = MaxOps
  /\ IdleDecoder
  /\ IdleFile
  /\ IdleStore
  /\ IdleHandlers

TrackerOp(ev, tc) ==
  /\ budget > 0
  /\ budget' = budget - 1
  /\ tokenCounts' = tc
  /\ event' = ev @@ [before |-> tokenCounts]
  /\ UNCHANGED <<decVars, storeVars, orchVars, fileVars>>

TrackerOpUpdate ==
  \E id \in TrackerIds, c \in CountInputs, total \in TotalInputs :
    TrackerOp([kind |-> "update", id |-> id, promptTokens |-> c[1], evalTokens |-> c[2],
               total |-> total],
              TrackerUpdate(tokenCounts, id, c[1], c[2], total))

TrackerOpSetTotal ==
  \E id \in TrackerIds, total \in TotalInputs :
    TrackerOp([kind |-> "setTotal", id |-> id, total |-> total],
              TrackerSetTotal(tokenCounts, id, total))

TrackerOpReset ==
  \E id \in TrackerIds :
    TrackerOp([kind |-> "reset", id |-> id], TrackerReset(tokenCounts, id))

TrackerOpGetUsage ==
  \E id \in TrackerIds :
    TrackerOp([kind |-> "getUsage", id |-> id, usage |-> GetUsage(tokenCounts, id)],
              tokenCounts)

NextTracker == TrackerOpUpdate \/ TrackerOpSetTotal \/ TrackerOpReset \/ TrackerOpGetUsage

SpecTracker == InitTracker /\ [][NextTracker]_vars

\* The snapshots of the sessions other than this one.
OtherSnapshots(tc, chatId) == {r \in tc : r.id # chatId}

\* C24: update(id, promptTokens, evalTokens, total) makes the snapshot of id
\* (promptTokens + evalTokens, total) whatever it was, and leaves the others.
C24_Update ==
  event.kind = "update" =>
    /\ TrackerGet(tokenCounts, event.id)
         = {[id |-> event.id, used |-> event.promptTokens + event.evalTokens,
             total |-> event.total]}
    /\ OtherSnapshots(tokenCounts, event.id) = OtherSnapshots(event.before, event.id)

\* C24 witness: update replaced a snapshot with other used tokens and another
\* capacity.
C24_Witness ==
  /\ event.kind = "update"
  /\ \E r \in TrackerGet(event.before, event.id) :
       /\ r.used > 0
       /\ r.used # event.promptTokens + event.evalTokens
       /\ r.total # event.total
  /\ event.promptTokens + event.evalTokens > 0

\* C25: setTotal(id, total) changes the capacity of the snapshot of id and
\* keeps its used tokens, creates the snapshot with 0 used tokens if there was
\* none, and leaves the others.
C25_SetTotal ==
  event.kind = "setTotal" =>
    /\ TrackerGet(tokenCounts, event.id) =
         IF TrackerGet(event.before, event.id) = {}
         THEN {[id |-> event.id, used |-> 0, total |-> event.total]}
         ELSE {[r EXCEPT !.total = event.total] : r \in TrackerGet(event.before, event.id)}
    /\ OtherSnapshots(tokenCounts, event.id) = OtherSnapshots(event.before, event.id)

\* C25 witness: setTotal changed the capacity of a snapshot with used tokens.
C25_Witness ==
  /\ event.kind = "setTotal"
  /\ \E r \in TrackerGet(event.before, event.id) : r.used > 0 /\ r.total # event.total
  /\ \E r \in TrackerGet(tokenCounts, event.id) : r.used > 0 /\ r.total = event.total

\* C26: getUsage of a session without a snapshot gives percent 0, used 0 and
\* total 4096, and after reset(id) the session has no snapshot, so getUsage
\* gives the same; reset leaves the other snapshots.
C26_DefaultUsage ==
  /\ (event.kind = "getUsage" /\ TrackerGet(tokenCounts, event.id) = {}) =>
       event.usage = [percent |-> 0, used |-> 0, total |-> 4096]
  /\ event.kind = "reset" =>
       /\ TrackerGet(tokenCounts, event.id) = {}
       /\ GetUsage(tokenCounts, event.id) = [percent |-> 0, used |-> 0, total |-> 4096]
       /\ OtherSnapshots(tokenCounts, event.id) = OtherSnapshots(event.before, event.id)

\* C26 witness: reset discarded a snapshot with used tokens.
C26_Witness ==
  /\ event.kind = "reset"
  /\ \E r \in TrackerGet(event.before, event.id) : r.used > 0
  /\ tokenCounts = {}

\* C27: for a snapshot (used, total), ten times the percent getUsage reports
\* is 1000 * used / total rounded to the nearest integer, a half going up.
C27_Percent ==
  (event.kind = "getUsage" /\ TrackerGet(tokenCounts, event.id) # {}) =>
    event.usage.percent = (2000 * event.usage.used + event.usage.total)
                            \div (2 * event.usage.total)

(***************************************************************************)
(* OllamaClient.getModelInfo: what the server answers to /api/show for the *)
(* models of the model, and the context length taken from it.              *)
(***************************************************************************)
FallbackContextLength == 4096

ShowResponse(model) ==
  IF model = "A" THEN [llama |-> <<>>, generic |-> <<8192>>]
  ELSE IF model = "B" THEN [llama |-> <<0>>, generic |-> <<>>]
  ELSE [llama |-> <<>>, generic |-> <<>>]

Truthy(x) == x # <<>> /\ x[1] # 0

\* ?? in place of ||: a reported 0 is taken
ContextLengthOfNullish(data) ==
  IF data.llama # <<>> THEN data.llama[1]
  ELSE IF data.generic # <<>> THEN data.generic[1]
  ELSE FallbackContextLength

\* data.model_info?.['llama.context_length'] || data.model_info?.context_length || 4096
ContextLengthOf(data) ==
  IF Truthy(data.llama) THEN data.llama[1]
  ELSE IF Truthy(data.generic) THEN data.generic[1]
  ELSE FallbackContextLength

GetModelInfo(model) == ContextLengthOf(ShowResponse(model))

(***************************************************************************)
(* OllamaChatProvider (sidebarProvider.ts) and the webview script.  A      *)
(* handler runs from one await to the next in one step; what it waits for  *)
(* answers in any order and may fail.                                      *)
(***************************************************************************)
\* The chunks chatStream can yield to handleSendMessage.
StreamChunks == {ChatChunk([kind |-> "object", member |-> <<m>>]) : m \in {"e", "t", "d"}}

\* Math.round((Date.now() - startTime) / 1000) with a tick of half a second
RoundSeconds(ticks) == (ticks + 1) \div 2

\* this.postMessage(...): of the messages posted in a step, the webview's
\* state depends on streamStart and streamComplete only; these are queued, and
\* the step's event records all of them.
Queued(msgs) == SelectSeq(msgs, LAMBDA m : m.type \in {"streamStart", "streamComplete"})

Emit(ev, msgs) ==
  /\ event' = ev @@ [posted |-> msgs]
  /\ toWebview' = toWebview \o Queued(msgs)

\* Every turn in flight other than turn i has seen another handler run.
Others(ts, i) == [j \in 1..Len(ts) |-> IF j = i THEN ts[j] ELSE [ts[j] EXCEPT !.alone = FALSE]]
Disturbed(ts) == Others(ts, 0)
Without(ts, i) == [j \in 1..(Len(ts) - 1) |-> IF j < i THEN ts[j] ELSE ts[j + 1]]

\* private refresh(): the selected model follows the active chat
Refresh(st, selected) ==
  IF GetActive(st) # 0 THEN st.chats[GetActive(st)].model ELSE selected

\* The usage of a session in the store and in the tracker.
StoreUsage(cs, chatId) ==
  IF Find(cs, chatId) = 0 THEN <<>>
  ELSE <<cs[Find(cs, chatId)].contextUsed, cs[Find(cs, chatId)].contextTotal>>

Init ==
  /\ \E n \in 0..1 : Constructed(n)
  /\ tokenCounts = {}
  /\ selectedModel = ""
  /\ models = <<>>
  /\ toHost = <<[type |-> "ready"]>>
  /\ toWebview = <<>>
  /\ isStreaming = FALSE
  /\ init = [pc |-> "idle"]
  /\ turns = <<>>
  /\ selects = <<>>
  /\ turnCount = 0
  /\ chunksLeft = MaxChunks
  /\ event = [kind |-> "constructed"]
  /\ budget = MaxUserActs
  /\ IdleDecoder
  /\ IdleFile

(* ----------------------------- the webview ----------------------------- *)
UserAct(msg) ==
  /\ budget > 0
  /\ budget' = budget - 1
  /\ toHost' = Append(toHost, msg)
  /\ event' = [kind |-> "step"]
  /\ UNCHANGED <<storeVars, tokenCounts, decVars, selectedModel, models, toWebview,
                 isStreaming, init, turns, selects, turnCount, chunksLeft, fileVars>>

\* function sendMessage(): if (!text || state.isStreaming) return;
UserSendMessage ==
  /\ ~isStreaming
  /\ UserAct([type |-> "sendMessage", text |-> Hi])

UserNewChat == UserAct([type |-> "newChat"])

UserSelectChat == \E id \in 1..uuidCount : UserAct([type |-> "selectChat", id |-> id])

UserDeleteChat == \E id \in 1..uuidCount : UserAct([type |-> "deleteChat", id |-> id])

UserSelectModel == \E m \in ModelNames : UserAct([type |-> "selectModel", model |-> m])

\* window.addEventListener('message', ...): streamStart, streamComplete, error
WebviewReceive ==
  /\ toWebview # <<>>
  /\ toWebview' = Tail(toWebview)
  /\ isStreaming' = IF Head(toWebview).type = "streamStart" THEN TRUE
                    ELSE IF Head(toWebview).type = "streamComplete" THEN FALSE
                    ELSE isStreaming
  /\ event' = [kind |-> "step"]
  /\ UNCHANGED <<storeVars, tokenCounts, decVars, selectedModel, models, toHost,
                 init, turns, selects, turnCount, chunksLeft, budget, fileVars>>

(* ------------------- onDidReceiveMessage, synchronous ----------------- *)
Received(type) == toHost # <<>> /\ Head(toHost).type = type /\ toHost' = Tail(toHost)

HandleNewChat ==
  /\ Received("newChat")
  /\ LET r == CreateChat(Store, selectedModel, uuidCount + 1, clock)
     IN  /\ Becomes(r)
         /\ selectedModel' = Refresh(r, selectedModel)
  /\ uuidCount' = uuidCount + 1
  /\ turns' = Disturbed(turns)
  /\ event' = [kind |-> "step"]
  /\ UNCHANGED <<clock, tokenCounts, decVars, models, toWebview, isStreaming, init,
                 selects, turnCount, chunksLeft, budget, fileVars>>

HandleSelectChat ==
  /\ Received("selectChat")
  /\ LET r == SetActive(Store, Head(toHost).id)
     IN  /\ Becomes(r)
         /\ selectedModel' = Refresh(r, selectedModel)
  /\ turns' = Disturbed(turns)
  /\ event' = [kind |-> "step"]
  /\ UNCHANGED <<uuidCount, clock, tokenCounts, decVars, models, toWebview, isStreaming,
                 init, selects, turnCount, chunksLeft, budget, fileVars>>

\* A handler that holds the deleted Chat object keeps reading its model.
Detach(ts, cs, chatId) ==
  [j \in 1..Len(ts) |->
     IF ts[j].chatId = chatId /\ Find(cs, chatId) # 0
     THEN [ts[j] EXCEPT !.model = cs[Find(cs, chatId)].model] ELSE ts[j]]

HandleDeleteChat ==
  /\ Received("deleteChat")
  /\ LET r == DeleteChat(Store, Head(toHost).id)
     IN  /\ Becomes(r)
         /\ selectedModel' = Refresh(r, selectedModel)
  /\ turns' = Disturbed(Detach(turns, chats, Head(toHost).id))
  /\ event' = [kind |-> "deleteChat", wasActive |-> (activeId = <<Head(toHost).id>>)]
  /\ UNCHANGED <<uuidCount, clock, tokenCounts, decVars, models, toWebview, isStreaming,
                 init, selects, turnCount, chunksLeft, budget, fileVars>>

(* ------------------------------ selectModel --------------------------- *)
HandleSelectModel ==
  /\ Received("selectModel")
  /\ selectedModel' = Head(toHost).model
  /\ LET a == GetActive(Store)
     IN  IF a # 0
         THEN /\ Becomes(UpdateModel(Store, chats[a].id, Head(toHost).model))
              /\ selects' = Append(selects, [chatId |-> chats[a].id,
                                             model |-> Head(toHost).model,
                                             answered |-> TRUE])
         ELSE /\ UNCHANGED <<chats, activeId, storage, selects>>
  /\ turns' = Disturbed(turns)
  /\ event' = [kind |-> "step"]
  /\ UNCHANGED <<uuidCount, clock, tokenCounts, decVars, models, toWebview, isStreaming,
                 init, turnCount, chunksLeft, budget, fileVars>>

\* History: a request of another selectModel handler for the session failed.
Unanswered(ss, chatId) ==
  [k \in 1..Len(ss) |->
     IF ss[k].chatId = chatId THEN [ss[k] EXCEPT !.answered = FALSE] ELSE ss[k]]

\* await this.ollamaClient.getModelInfo(this.selectedModel) answers or throws
SelectModelInfo ==
  \E i \in 1..Len(selects), ok \in BOOLEAN :
    /\ selects' = Without(IF ok THEN selects ELSE Unanswered(selects, selects[i].chatId), i)
    /\ tokenCounts' = IF ok
                      THEN TrackerSetTotal(tokenCounts, selects[i].chatId,
                                           GetModelInfo(selects[i].model))
                      ELSE tokenCounts
    /\ turns' = Disturbed(turns)
    /\ event' = [kind |-> IF ok THEN "selectModelDone" ELSE "selectModelFailed",
                 chatId |-> selects[i].chatId, model |-> selects[i].model,
                 answered |-> selects[i].answered]
    /\ UNCHANGED <<storeVars, decVars, selectedModel, models, toHost, toWebview,
                   isStreaming, init, turnCount, chunksLeft, budget, fileVars>>

(* ------------------------------ initialize ---------------------------- *)
HandleReady ==
  /\ Received("ready")
  /\ init' = [pc |-> "ensureRunning"]
  /\ turns' = Disturbed(turns)
  /\ event' = [kind |-> "step"]
  /\ UNCHANGED <<storeVars, tokenCounts, decVars, selectedModel, models, toWebview,
                 isStreaming, selects, turnCount, chunksLeft, budget, fileVars>>

\* await this.ollamaService.ensureRunning() answers
InitEnsureRunning ==
  /\ init.pc = "ensureRunning"
  /\ \E running \in BOOLEAN :
       /\ init' = [pc |-> IF running THEN "listModels" ELSE "done"]
       /\ Emit([kind |-> IF running THEN "step" ELSE "initFailed"],
               IF running THEN <<>> ELSE <<[type |-> "error"]>>)
  /\ turns' = Disturbed(turns)
  /\ UNCHANGED <<storeVars, tokenCounts, decVars, selectedModel, models, toHost,
                 isStreaming, selects, turnCount, chunksLeft, budget, fileVars>>

\* await this.ollamaClient.listModels() throws
InitListModelsFails ==
  /\ init.pc = "listModels"
  /\ init' = [pc |-> "done"]
  /\ Emit([kind |-> "initFailed"], <<[type |-> "error"]>>)
  /\ turns' = Disturbed(turns)
  /\ UNCHANGED <<storeVars, tokenCounts, decVars, selectedModel, models, toHost,
                 isStreaming, selects, turnCount, chunksLeft, budget, fileVars>>

\* await this.ollamaClient.listModels() answers: up to the next await
InitListModels ==
  /\ init.pc = "listModels"
  /\ \E list \in {<<>>, <<"A", "B">>} :
       LET first   == IF Len(list) > 0 /\ selectedModel = "" THEN list[1] ELSE selectedModel
           a       == GetActive(Store)
           r       == IF a = 0 THEN CreateChat(Store, first, uuidCount + 1, clock)
                      ELSE [chats |-> chats, activeId |-> activeId, saved |-> FALSE]
           chatId  == IF a = 0 THEN uuidCount + 1 ELSE chats[a].id
           chosen  == IF a = 0 THEN first ELSE chats[a].model
       IN  /\ models' = list
           /\ Becomes(r)
           /\ uuidCount' = IF a = 0 THEN uuidCount + 1 ELSE uuidCount
           /\ selectedModel' = chosen
           /\ init' = IF chosen # ""
                      THEN [pc |-> "getModelInfo", chatId |-> chatId, model |-> chosen]
                      ELSE [pc |-> "done"]
           /\ Emit([kind |-> IF chosen # "" THEN "step" ELSE "initDone"],
                   IF chosen # "" THEN <<>> ELSE <<[type |-> "init"]>>)
  /\ turns' = Disturbed(turns)
  /\ UNCHANGED <<clock, tokenCounts, decVars, toHost, isStreaming, selects,
                 turnCount, chunksLeft, budget, fileVars>>

\* await this.ollamaClient.getModelInfo(this.selectedModel) answers or throws
InitGetModelInfo ==
  /\ init.pc = "getModelInfo"
  /\ \E ok \in BOOLEAN :
       LET total == GetModelInfo(init.model)
           i     == Find(chats, init.chatId)
       IN  /\ tokenCounts' = IF ok THEN TrackerSetTotal(tokenCounts, init.chatId, total)
                             ELSE tokenCounts
           /\ Becomes(IF ok /\ i # 0
                      THEN UpdateContext(Store, init.chatId, chats[i].contextUsed, total)
                      ELSE [chats |-> chats, activeId |-> activeId, saved |-> FALSE])
           /\ Emit([kind |-> IF ok THEN "initDone" ELSE "initFailed"],
                   <<[type |-> IF ok THEN "init" ELSE "error"]>>)
  /\ init' = [pc |-> "done"]
  /\ turns' = Disturbed(turns)
  /\ UNCHANGED <<uuidCount, clock, decVars, selectedModel, models, toHost, isStreaming,
                 selects, turnCount, chunksLeft, budget, fileVars>>

(* --------------------------- handleSendMessage ------------------------ *)
\* Up to the first await, the fetch of chatStream.
HandleSendMessage ==
  /\ Received("sendMessage")
  /\ LET a    == GetActive(Store)
         text == Head(toHost).text
         msg  == [role |-> "user", content |-> Trim(text), thinking |-> <<>>,
                  thinkingTime |-> <<>>, timestamp |-> clock]
     IN  IF a = 0 \/ Trim(text) = <<>>
         THEN /\ UNCHANGED <<chats, activeId, storage, turnCount>>
              /\ turns' = Disturbed(turns)
              /\ Emit([kind |-> "step"], <<>>)
         ELSE /\ Becomes(AddMessage(Store, chats[a].id, msg))
              /\ turnCount' = turnCount + 1
              /\ Emit([kind |-> "step"],
                      <<[type |-> "addMessage"],
                        [type |-> "streamStart", tid |-> turnCount + 1]>>)
              /\ turns' = Append(Disturbed(turns),
                   [tid |-> turnCount + 1, chatId |-> chats[a].id, model |-> chats[a].model,
                    pc |-> "fetch", thinking |-> <<>>, content |-> <<>>,
                    startTime |-> clock, lastThinkingTime |-> 0, chunk |-> <<>>,
                    seen |-> <<>>, seenAt |-> <<>>, userMsg |-> msg, alone |-> TRUE,
                    before |-> [store |-> StoreUsage(chats, chats[a].id),
                                tracker |-> TrackerGet(tokenCounts, chats[a].id)]])
  /\ UNCHANGED <<uuidCount, clock, tokenCounts, decVars, selectedModel, models,
                 isStreaming, init, selects, chunksLeft, budget, fileVars>>

\* the catch block posts the error only
CatchPostsErrorOnly(tid) == <<[type |-> "error"]>>

\* catch (error) { postMessage({type: 'error', ...}); postMessage({type: 'streamComplete'}); }
CatchPosts(tid) ==
  <<[type |-> "error"], [type |-> "streamComplete", tid |-> tid, message |-> <<>>]>>

\* The catch block: the error and a streamComplete without a message.
TurnFails(i) ==
  /\ turns' = Without(Others(turns, i), i)
  /\ Emit([kind |-> "turnFailed", tid |-> turns[i].tid, chatId |-> turns[i].chatId,
            userMsg |-> turns[i].userMsg, before |-> turns[i].before,
            alone |-> turns[i].alone, seen |-> turns[i].seen],
          CatchPosts(turns[i].tid))
  /\ UNCHANGED <<storeVars, tokenCounts, decVars, selectedModel, models, toHost,
                 isStreaming, init, selects, turnCount, chunksLeft, budget, fileVars>>

\* await fetch(...) answers with res.ok
TurnFetchOk ==
  \E i \in 1..Len(turns) :
    /\ turns[i].pc = "fetch"
    /\ turns' = [Others(turns, i) EXCEPT ![i].pc = "streaming"]
    /\ event' = [kind |-> "step"]
    /\ UNCHANGED <<storeVars, tokenCounts, decVars, selectedModel, models, toHost,
                   toWebview, isStreaming, init, selects, turnCount, chunksLeft, budget, fileVars>>

\* await fetch(...) rejects, or answers with a status that is not ok
TurnFetchFails ==
  \E i \in 1..Len(turns) : turns[i].pc = "fetch" /\ TurnFails(i)

\* thinking += chunk.thinking; content += chunk.content
AccumulateOverwrites(text, fragment) == fragment

Accumulate(text, fragment) == text \o fragment

\* the time is taken at every chunk
ThinkingTimeAtEveryChunk(chunk, last, startTime, now) == RoundSeconds(now - startTime)

\* if (chunk.thinking) { thinking += ...; lastThinkingTime = Math.round(...); }
ThinkingTimeAt(chunk, last, startTime, now) ==
  IF chunk.thinking # <<>> THEN RoundSeconds(now - startTime) ELSE last

\* chatStream yields a chunk, some time after the previous step: the body
\* of the for await loop up to its await
TurnChunk ==
  \E i \in 1..Len(turns), c \in StreamChunks, now \in {clock, clock + 1} :
    /\ turns[i].pc = "streaming"
    /\ chunksLeft > 0
    /\ now <= MaxClock
    /\ clock' = now
    /\ LET t       == turns[i]
           counted == c.done /\ c.promptTokens # <<>> /\ c.evalTokens # <<>>
       IN  turns' = [Others(turns, i) EXCEPT
             ![i].thinking = IF c.thinking # <<>> THEN Accumulate(@, c.thinking) ELSE @,
             ![i].lastThinkingTime = ThinkingTimeAt(c, @, t.startTime, now),
             ![i].content = IF c.content # <<>> THEN Accumulate(@, c.content) ELSE @,
             ![i].seen = Append(@, c),
             ![i].seenAt = Append(@, now),
             ![i].chunk = IF counted THEN <<c>> ELSE <<>>,
             ![i].pc = IF counted THEN "getModelInfo" ELSE "streaming"]
    /\ Emit([kind |-> "step"], <<[type |-> "streamUpdate", tid |-> turns[i].tid]>>)
    /\ chunksLeft' = chunksLeft - 1
    /\ UNCHANGED <<chats, activeId, storage, uuidCount, tokenCounts, decVars,
                   selectedModel, models, toHost, isStreaming, init, selects,
                   turnCount, budget, fileVars>>

\* contextTracker.update(...) and chatManager.updateContext(...), lines 166-176
RecordUsageTrackerOnly(tc, st, chatId, promptTokens, evalTokens, total) ==
  [tracker |-> TrackerUpdate(tc, chatId, promptTokens, evalTokens, total),
   store |-> [chats |-> st.chats, activeId |-> st.activeId, saved |-> FALSE]]

RecordUsage(tc, st, chatId, promptTokens, evalTokens, total) ==
  [tracker |-> TrackerUpdate(tc, chatId, promptTokens, evalTokens, total),
   store |-> UpdateContext(st, chatId, promptTokens + evalTokens, total)]

\* the session that is active when the write is made
TurnTargetActive(t, st) ==
  IF GetActive(st) # 0 THEN st.chats[GetActive(st)].id ELSE t.chatId

\* chat.id, of the Chat object the handler took from getActive() at its start
TurnTarget(t, st) == t.chatId

\* The Chat object the handler holds: chat.model
ModelOf(t) ==
  IF Find(chats, t.chatId) # 0 THEN chats[Find(chats, t.chatId)].model ELSE t.model

\* await this.ollamaClient.getModelInfo(chat.model) answers
TurnModelInfo ==
  \E i \in 1..Len(turns) :
    /\ turns[i].pc = "getModelInfo"
    /\ LET t == turns[i]
           c == t.chunk[1]
           total == GetModelInfo(ModelOf(t))
           r == RecordUsage(tokenCounts, Store, TurnTarget(t, Store),
                            c.promptTokens[1], c.evalTokens[1], total)
       IN  /\ tokenCounts' = r.tracker
           /\ Becomes(r.store)
           /\ Emit([kind |-> "usageRecorded", tid |-> t.tid, chatId |-> t.chatId,
                     promptTokens |-> c.promptTokens[1],
                     evalTokens |-> c.evalTokens[1], total |-> total],
                   <<[type |-> "contextUpdate"]>>)
    /\ turns' = [Others(turns, i) EXCEPT ![i].pc = "streaming", ![i].chunk = <<>>]
    /\ UNCHANGED <<uuidCount, clock, decVars, selectedModel, models, toHost,
                   isStreaming, init, selects, turnCount, chunksLeft, budget, fileVars>>

\* await this.ollamaClient.getModelInfo(chat.model) throws
TurnModelInfoFails ==
  \E i \in 1..Len(turns) : turns[i].pc = "getModelInfo" /\ TurnFails(i)

\* reader.read() rejects while the stream is being read
TurnStreamFails ==
  \E i \in 1..Len(turns) : turns[i].pc = "streaming" /\ TurnFails(i)

\* The stream ends: the assistant message and streamComplete
TurnStreamEnds ==
  \E i \in 1..Len(turns) :
    /\ turns[i].pc = "streaming"
    /\ LET t   == turns[i]
           msg == [role |-> "assistant", content |-> t.content,
                   thinking |-> IF t.thinking # <<>> THEN <<t.thinking>> ELSE <<>>,
                   thinkingTime |-> IF t.thinking # <<>> THEN <<t.lastThinkingTime>>
                                    ELSE <<>>,
                   timestamp |-> clock]
       IN  /\ Becomes(AddMessage(Store, TurnTarget(t, Store), msg))
           /\ Emit([kind |-> "turnDone", tid |-> t.tid, chatId |-> t.chatId,
                     userMsg |-> t.userMsg, seen |-> t.seen, alone |-> t.alone,
                     seenAt |-> t.seenAt, startTime |-> t.startTime,
                     logBefore |-> IF Find(chats, t.chatId) = 0 THEN <<>>
                                   ELSE chats[Find(chats, t.chatId)].messages],
                   <<[type |-> "streamComplete", tid |-> t.tid, message |-> <<msg>>]>>)
    /\ turns' = Without(Others(turns, i), i)
    /\ UNCHANGED <<uuidCount, clock, tokenCounts, decVars, selectedModel, models, toHost,
                   isStreaming, init, selects, turnCount, chunksLeft, budget, fileVars>>

Next ==
  \/ UserSendMessage \/ UserNewChat \/ UserSelectChat \/ UserDeleteChat
  \/ UserSelectModel \/ WebviewReceive
  \/ HandleNewChat \/ HandleSelectChat \/ HandleDeleteChat
  \/ HandleSelectModel \/ SelectModelInfo
  \/ HandleReady \/ InitEnsureRunning \/ InitListModelsFails \/ InitListModels
  \/ InitGetModelInfo
  \/ HandleSendMessage \/ TurnFetchOk \/ TurnFetchFails \/ TurnChunk
  \/ TurnModelInfo \/ TurnModelInfoFails \/ TurnStreamFails \/ TurnStreamEnds

Spec == Init /\ [][Next]_vars

(***************************************************************************)
(* Properties of the turn and of the two usage records.                    *)
(***************************************************************************)
Quiescent == turns = <<>> /\ selects = <<>> /\ init.pc \in {"idle", "done"}

LogOf(chatId) == chats[Find(chats, chatId)].messages

Counted(c) == c.done /\ c.promptTokens # <<>> /\ c.evalTokens # <<>>

ContentOf(seen) == Flatten([k \in 1..Len(seen) |-> seen[k].content])
ThinkingOf(seen) == Flatten([k \in 1..Len(seen) |-> seen[k].thinking])

PostedTypes == {event.posted[k].type : k \in 1..Len(event.posted)}

\* C5: a turn that fails, with no other handler running during it, leaves the
\* session log ending with the turn's user message, the usage of the session
\* in the store and in the tracker as it was before the turn, and has posted
\* an error.
C5_FailedTurn ==
  (event.kind = "turnFailed" /\ event.alone) =>
    /\ Find(chats, event.chatId) # 0
    /\ LogOf(event.chatId)[Len(LogOf(event.chatId))] = event.userMsg
    /\ StoreUsage(chats, event.chatId) = event.before.store
    /\ TrackerGet(tokenCounts, event.chatId) = event.before.tracker
    /\ "error" \in PostedTypes

\* C6 as amended: when the stream of a turn ends without error and the
\* session is still in the store, the log is the log before with one
\* assistant message appended, the user message of the turn is earlier in the
\* log, the content and the reasoning text are the concatenations of the
\* fragments, the reasoning text is set only if non-empty, and a completion
\* record with both counts has made their sum the session's used tokens.
C6_AssistantMessage ==
  /\ (event.kind = "turnDone" /\ Find(chats, event.chatId) # 0) =>
       LET log == LogOf(event.chatId)
           m   == log[Len(log)]
       IN  /\ log = Append(event.logBefore, m)
           /\ m.role = "assistant"
           /\ \E k \in 1..Len(event.logBefore) : event.logBefore[k] = event.userMsg
           /\ m.content = ContentOf(event.seen)
           /\ m.thinking = IF ThinkingOf(event.seen) # <<>>
                           THEN <<ThinkingOf(event.seen)>> ELSE <<>>
           /\ \A k \in 1..Len(event.seen) :
                Counted(event.seen[k]) =>
                  chats[Find(chats, event.chatId)].contextUsed
                    = event.seen[k].promptTokens[1] + event.seen[k].evalTokens[1]
  /\ (event.kind = "usageRecorded" /\ Find(chats, event.chatId) # 0) =>
       chats[Find(chats, event.chatId)].contextUsed
         = event.promptTokens + event.evalTokens

\* C6 witness: a stream of two content fragments ended and the message was
\* appended to the session.
C6_Witness ==
  /\ event.kind = "turnDone"
  /\ Find(chats, event.chatId) # 0
  /\ Len(ContentOf(event.seen)) = 2
  /\ LogOf(event.chatId)[Len(LogOf(event.chatId))].content = <<"e", "e">>

\* C6 as stated: whenever the stream of a turn ends without error, one
\* assistant message is appended to the turn's session.
C6_Original ==
  event.kind = "turnDone" =>
    /\ Find(chats, event.chatId) # 0
    /\ LogOf(event.chatId)[Len(LogOf(event.chatId))].role = "assistant"
    /\ LogOf(event.chatId)[Len(LogOf(event.chatId))].content = ContentOf(event.seen)

\* C7: when a handler has completed and none is in flight, every snapshot of
\* the tracker for a session of the store equals the usage stored in the
\* session.
C7_TrackerEqualsStore ==
  (event.kind \in {"initDone", "selectModelDone", "turnDone"} /\ Quiescent) =>
    \A r \in tokenCounts :
      Find(chats, r.id) # 0 => StoreUsage(chats, r.id) = <<r.used, r.total>>

\* C8: at most one turn is in flight for a session.
C8_OneTurnPerSession ==
  \A i, j \in 1..Len(turns) : turns[i].chatId = turns[j].chatId => i = j

\* C9: a step that makes the counts of a completion record the used tokens
\* of a snapshot in the tracker, for a session that is in the store, writes
\* the same usage into the session in the same step, and the session is still
\* in the store after it: no deleteChat comes between the two writes.
C9_OneStep ==
  [][\A r \in tokenCounts' :
       ( /\ r.used # 0
         /\ \A q \in tokenCounts : q.id = r.id => q.used # r.used
         /\ Find(chats, r.id) # 0 ) =>
         /\ Find(chats', r.id) # 0
         /\ StoreUsage(chats', r.id) = <<r.used, r.total>>]_vars

\* C9 witness: the usage of a completion record was written into both while
\* a deleteChat of the turn's session was waiting to be processed.
C9_Witness ==
  /\ event.kind = "usageRecorded"
  /\ toHost # <<>>
  /\ Head(toHost).type = "deleteChat"
  /\ Head(toHost).id = event.chatId
  /\ StoreUsage(chats, event.chatId) = <<event.promptTokens + event.evalTokens, event.total>>
  /\ TrackerGet(tokenCounts, event.chatId)
       = {[id |-> event.chatId, used |-> event.promptTokens + event.evalTokens,
           total |-> event.total]}

\* C28: every snapshot in the tracker and every usage stored in a session
\* has used >= 0 and total > 0, whether the server reports no context
\* length, 0 or a positive one.
C28_PositiveTotal ==
  /\ \A r \in tokenCounts : r.used >= 0 /\ r.total > 0
  /\ \A i \in 1..Len(chats) : chats[i].contextUsed >= 0 /\ chats[i].contextTotal > 0

\* C28 witness: the counts of a completion record were written to the
\* tracker and to the session for a model the server reports 0 for.
C28_Witness ==
  /\ event.kind = "usageRecorded"
  /\ Find(chats, event.chatId) # 0
  /\ ShowResponse(chats[Find(chats, event.chatId)].model).llama = <<0>>
  /\ StoreUsage(chats, event.chatId) = <<event.promptTokens + event.evalTokens, 4096>>
  /\ TrackerGet(tokenCounts, event.chatId)
       = {[id |-> event.chatId, used |-> event.promptTokens + event.evalTokens,
           total |-> 4096]}

\* The position of the last fragment with reasoning text, 0 if there is none.
LastThinking(seen) ==
  IF \A k \in 1..Len(seen) : seen[k].thinking = <<>> THEN 0
  ELSE CHOOSE k \in 1..Len(seen) :
         /\ seen[k].thinking # <<>>
         /\ \A j \in (k + 1)..Len(seen) : seen[j].thinking = <<>>

\* C29: a stored message has a reasoning duration exactly if it has reasoning
\* text, only assistant messages have reasoning text, and the duration of the
\* message a turn stores is the whole seconds from the start of the turn to
\* its last fragment with reasoning text.
C29_ThinkingTime ==
  /\ \A i \in 1..Len(chats) : \A k \in 1..Len(chats[i].messages) :
       LET m == chats[i].messages[k]
       IN  /\ (m.thinkingTime # <<>>) <=> (m.thinking # <<>>)
           /\ m.thinking # <<>> => m.role = "assistant"
  /\ (event.kind = "turnDone" /\ Find(chats, event.chatId) # 0
        /\ LastThinking(event.seen) # 0) =>
       LogOf(event.chatId)[Len(LogOf(event.chatId))].thinkingTime
         = <<RoundSeconds(event.seenAt[LastThinking(event.seen)] - event.startTime)>>

\* C29 witness: a turn stored a message after a fragment with reasoning text
\* and, half a second later, a fragment with content only.
C29_Witness ==
  /\ event.kind = "turnDone"
  /\ Find(chats, event.chatId) # 0
  /\ Len(event.seen) = 2
  /\ LastThinking(event.seen) = 1
  /\ event.seen[2].content # <<>>
  /\ event.seenAt = <<event.startTime, event.startTime + 1>>
  /\ LogOf(event.chatId)[Len(LogOf(event.chatId))].thinkingTime = <<0>>

\* The step is the handler of a message of this type from the webview.
Handles(type) == toHost # <<>> /\ Head(toHost).type = type /\ toHost' = Tail(toHost)

\* The step is initialize() after listModels() has answered.
InitializeStep == init.pc = "listModels" /\ init'.pc # "listModels" /\ event'.kind # "initFailed"

\* C30: a session is created only by newChat, or by initialize or a user
\* turn handled while no session is active; these two then leave a new
\* session active, and create none when a session is active.
C30_LazyCreation ==
  [][/\ Len(chats') > Len(chats) =>
          \/ Handles("newChat")
          \/ (Handles("sendMessage") \/ InitializeStep) /\ GetActive(Store) = 0
     /\ (Handles("sendMessage") \/ InitializeStep) =>
          IF GetActive(Store) = 0
          THEN /\ Len(chats') = Len(chats) + 1
               /\ activeId' = <<uuidCount'>>
               /\ uuidCount' = uuidCount + 1
               /\ Find(chats', uuidCount') # 0
          ELSE Len(chats') = Len(chats)]_vars

\* The sessions other than this one, and the posts of a step by type.
OtherChats(cs, chatId) == SelectSeq(cs, LAMBDA c : c.id # chatId)
Posts(ev, type) ==
  IF "posted" \in DOMAIN ev THEN SelectSeq(ev.posted, LAMBDA m : m.type = type) ELSE <<>>
InFlight(ts) == {ts[i].tid : i \in 1..Len(ts)}
LogIn(cs, chatId) == cs[Find(cs, chatId)].messages

\* C34: the step of a turn that records the usage or appends the assistant
\* message writes to the session that was active when the turn was
\* submitted, if it is still in the store, and leaves every other session
\* and every other snapshot as it was.
C34_TurnSession ==
  [][event'.kind \in {"usageRecorded", "turnDone"} =>
       /\ OtherChats(chats', event'.chatId) = OtherChats(chats, event'.chatId)
       /\ OtherSnapshots(tokenCounts', event'.chatId)
            = OtherSnapshots(tokenCounts, event'.chatId)
       /\ Find(chats', event'.chatId) = Find(chats, event'.chatId)
       /\ (event'.kind = "turnDone" /\ Find(chats, event'.chatId) # 0) =>
            /\ Len(LogIn(chats', event'.chatId)) = Len(LogIn(chats, event'.chatId)) + 1
            /\ LogIn(chats', event'.chatId)[Len(LogIn(chats', event'.chatId))].role
                 = "assistant"
       /\ (event'.kind = "usageRecorded" /\ Find(chats, event'.chatId) # 0) =>
            StoreUsage(chats', event'.chatId)
              = <<event'.promptTokens + event'.evalTokens, event'.total>>
       /\ event'.kind = "usageRecorded" =>
            TrackerGet(tokenCounts', event'.chatId)
              = {[id |-> event'.chatId,
                  used |-> event'.promptTokens + event'.evalTokens,
                  total |-> event'.total]}]_vars

\* C34 witness: a turn appended its assistant message to its session while
\* another session, created after the turn was submitted, was active.
C34_Witness ==
  /\ event.kind = "turnDone"
  /\ Find(chats, event.chatId) # 0
  /\ activeId # <<event.chatId>>
  /\ GetActive(Store) # 0
  /\ chats[GetActive(Store)].messages = <<>>
  /\ LogOf(event.chatId)[Len(LogOf(event.chatId))].role = "assistant"

\* C35: when no handler is in flight, the tracker holds snapshots only for
\* sessions of the store.
C35_TrackerWithinStore ==
  Quiescent => \A r \in tokenCounts : Find(chats, r.id) # 0

\* C36: streamStart is posted once, by the step that starts the turn; the
\* step in which the turn's stream ends or fails posts exactly one
\* streamComplete of the turn and no other step posts one; streamUpdate is
\* posted only for a turn still in flight; and isStreaming, once true,
\* becomes false again.
C36_StreamCompletes ==
  /\ [][LET starts    == Posts(event', "streamStart")
            completes == Posts(event', "streamComplete")
            updates   == Posts(event', "streamUpdate")
        IN  /\ {starts[k].tid : k \in 1..Len(starts)} = InFlight(turns') \ InFlight(turns)
            /\ {completes[k].tid : k \in 1..Len(completes)}
                 = InFlight(turns) \ InFlight(turns')
            /\ Len(starts) + Len(completes) <= 1
            /\ \A k \in 1..Len(updates) : updates[k].tid \in InFlight(turns')]_vars
  /\ (isStreaming ~> ~isStreaming)

\* C36 witness: a turn failed after a fragment was streamed, the webview has
\* received its streamComplete and isStreaming is false again.
C36_Witness ==
  /\ event.kind = "step"
  /\ turnCount > 0
  /\ turns = <<>>
  /\ toWebview = <<>>
  /\ ~isStreaming
  /\ chunksLeft < MaxChunks
  /\ \E i \in 1..Len(chats) :
       /\ chats[i].messages # <<>>
       /\ chats[i].messages[Len(chats[i].messages)].role = "user"

\* C37: when a selectModel handler completes, none is waiting for the same
\* session and every getModelInfo request made for the session since this
\* handler started was answered, the capacity of the session's snapshot is
\* the context length of the model the session is bound to.
C37_LastSelectionWins ==
  ( /\ event.kind = "selectModelDone"
    /\ event.answered
    /\ Find(chats, event.chatId) # 0
    /\ \A k \in 1..Len(selects) : selects[k].chatId # event.chatId ) =>
    \A r \in TrackerGet(tokenCounts, event.chatId) :
      r.total = GetModelInfo(chats[Find(chats, event.chatId)].model)

\* The scheduling of the host and of the webview: a message posted to the
\* webview is received, and what a handler awaits answers or fails.
Fairness ==
  /\ WF_vars(WebviewReceive)
  /\ WF_vars(TurnFetchOk \/ TurnFetchFails)
  /\ WF_vars(TurnModelInfo \/ TurnModelInfoFails)
  /\ WF_vars(TurnStreamEnds \/ TurnStreamFails)

\* The provider once initialize() has completed on a store of one session:
\* the models are listed, the session's model is selected and its capacity
\* is in the tracker and in the session.
InitLive ==
  /\ storage = SeedStorage(1)
  /\ LET loaded == Load(storage)
         total  == GetModelInfo(loaded.chats[1].model)
         r      == UpdateContext(loaded, loaded.chats[1].id,
                                 loaded.chats[1].contextUsed, total)
     IN  /\ chats = r.chats
         /\ activeId = r.activeId
         /\ selectedModel = loaded.chats[1].model
         /\ tokenCounts = TrackerSetTotal({}, loaded.chats[1].id, total)
  /\ uuidCount = 1
  /\ clock = 0
  /\ models = <<"A", "B">>
  /\ toHost = <<>>
  /\ toWebview = <<>>
  /\ isStreaming = FALSE
  /\ init = [pc |-> "done"]
  /\ turns = <<>>
  /\ selects = <<>>
  /\ turnCount = 0
  /\ chunksLeft = MaxChunks
  /\ event = [kind |-> "initDone", posted |-> <<[type |-> "init"]>>]
  /\ budget = MaxUserActs
  /\ IdleDecoder
  /\ IdleFile

\* The turns, with the handlers that change the store under them.
NextLive ==
  \/ UserSendMessage \/ UserNewChat \/ UserDeleteChat \/ WebviewReceive
  \/ HandleNewChat \/ HandleDeleteChat
  \/ HandleSendMessage \/ TurnFetchOk \/ TurnFetchFails \/ TurnChunk
  \/ TurnModelInfo \/ TurnModelInfoFails \/ TurnStreamFails \/ TurnStreamEnds

SpecLive == InitLive /\ [][NextLive]_vars /\ Fairness

(***************************************************************************)
(* The keybindings helpers (extension.ts).  The file is a list of lines    *)
(* between the brackets of the array: a line holds an entry, a comment     *)
(* that starts the line, or an entry followed by a comment.  An entry is   *)
(* [key, command, when]; a command is a name, removed ("-name") or not;    *)
(* a when clause (<<>> if the entry has none) is the list of the context   *)
(* keys it joins.                                                          *)
(***************************************************************************)
CommentLine == [entry |-> <<>>, comment |-> TRUE]
EntryLine(e) == [entry |-> <<e>>, comment |-> FALSE]

\* The entries of a text, as an editor that reads JSON with comments sees them.
RECURSIVE EntriesOf(_)
EntriesOf(lines) ==
  IF lines = <<>> THEN <<>> ELSE Head(lines).entry \o EntriesOf(Tail(lines))

\* content.replace(/^\s*\/\/.*$/gm, ''): the lines that start with a comment
\* are emptied; a comment after an entry is not at the start of its line.
StripJsonComments(lines) == SelectSeq(lines, LAMBDA l : ~(l.comment /\ l.entry = <<>>))

\* JSON.parse(trimmed): a comment left in the text is a SyntaxError
JsonParse(lines) ==
  IF \E k \in 1..Len(lines) : lines[k].comment
  THEN [threw |-> TRUE, value |-> <<>>]
  ELSE [threw |-> FALSE, value |-> EntriesOf(lines)]

\* readKeybindings(): any[]
ReadKeybindings(file) ==
  IF ~file.exists THEN <<>>
  ELSE LET stripped == StripJsonComments(file.lines)
       IN  IF stripped = <<>> THEN <<>>
           ELSE IF JsonParse(stripped).threw THEN <<>>
           ELSE JsonParse(stripped).value

\* writeKeybindings(keybindings): header + JSON.stringify(keybindings, null, 4)
WriteKeybindings(keybindings) ==
  [exists |-> TRUE,
   lines |-> <<CommentLine>> \o [k \in 1..Len(keybindings) |-> EntryLine(keybindings[k])]]

CURSOR_CMDL_COMMANDS == <<"aichat.newchataction", "composer.newAgentChat", "composer.sendToAgent">>

HijackWhen == <<"ollamaChatVisible", "editorTextFocus", "editorHasSelection">>

\* getHijackEntries(): any[]
GetHijackEntries ==
  [k \in 1..Len(CURSOR_CMDL_COMMANDS) |->
     [key |-> "cmd+l", command |-> [removed |-> TRUE, name |-> CURSOR_CMDL_COMMANDS[k]],
      when |-> <<HijackWhen>>]]

\* kb.when?.includes('ollamaChat')
WhenIncludesOllamaChat(kb) ==
  kb.when # <<>> /\ \E k \in 1..Len(kb.when[1]) : kb.when[1][k] = "ollamaChatVisible"

\* isHijackEnabled is never true
IsHijackEnabledNever(file) == FALSE

\* isHijackEnabled(): boolean
IsHijackEnabled(file) ==
  \E k \in 1..Len(ReadKeybindings(file)) :
    LET kb == ReadKeybindings(file)[k]
    IN  /\ kb.command = [removed |-> TRUE, name |-> "aichat.newchataction"]
        /\ WhenIncludesOllamaChat(kb)

\* enableHijack(): the file it writes, if it writes
EnableHijack(file) ==
  IF ~IsHijackEnabled(file)
  THEN [writes |-> TRUE, file |-> WriteKeybindings(ReadKeybindings(file) \o GetHijackEntries)]
  ELSE [writes |-> FALSE, file |-> file]

\* disableHijack(): the file it writes
DisableHijack(file) ==
  [writes |-> TRUE,
   file |-> WriteKeybindings(
              SelectSeq(ReadKeybindings(file),
                        LAMBDA kb : ~(WhenIncludesOllamaChat(kb) /\ kb.command.removed)))]

(***************************************************************************)
(* The helpers on their own: the user's file is absent or holds up to two  *)
(* entries of the user's, with or without a comment line before them, a    *)
(* comment after the first entry, and the entries of an earlier            *)
(* enableHijack; enableHijack and disableHijack are called in any order,   *)
(* and a write to the file may fail.                                       *)
(***************************************************************************)
UserEntries ==
  { [key |-> "ctrl+k", command |-> [removed |-> FALSE, name |-> "editor.action.foo"],
     when |-> <<>>],
    [key |-> "cmd+l", command |-> [removed |-> TRUE, name |-> "aichat.newchataction"],
     when |-> <<>>],
    [key |-> "cmd+k", command |-> [removed |-> TRUE, name |-> "editor.action.foo"],
     when |-> <<<<"editorTextFocus">>>>] }

MaxEntries == 2

UserLines(es, commented) ==
  [k \in 1..Len(es) |-> [entry |-> <<es[k]>>, comment |-> (commented /\ k = 1)]]

InitKeys ==
  /\ \/ keybindingsFile = [exists |-> FALSE, lines |-> <<>>]
     \/ \E es \in SeqsUpTo(UserEntries, MaxEntries), header \in BOOLEAN,
           commented \in BOOLEAN, hijacked \in BOOLEAN :
          keybindingsFile =
            [exists |-> TRUE,
             lines |-> (IF header THEN <<CommentLine>> ELSE <<>>)
                         \o UserLines(es, commented)
                         \o (IF hijacked
                             THEN [k \in 1..Len(GetHijackEntries) |->
                                     EntryLine(GetHijackEntries[k])]
                             ELSE <<>>)]
  /\ event = [kind |-> "constructed", returned |-> TRUE, wrote |-> FALSE,
              before |-> keybindingsFile]
  /\ budget = MaxOps
  /\ tokenCounts = {}
  /\ IdleDecoder
  /\ IdleStore
  /\ IdleHandlers

\* One call: fs.writeFileSync may throw, the call then returns false and the
\* file is as it was.  The event keeps the call before this one.
KeysOp(kind, r) ==
  /\ budget > 0
  /\ budget' = budget - 1
  /\ \E failed \in (IF r.writes THEN BOOLEAN ELSE {FALSE}) :
       /\ keybindingsFile' = IF failed THEN keybindingsFile ELSE r.file
       /\ event' = [kind |-> kind, returned |-> ~failed, wrote |-> (r.writes /\ ~failed),
                    before |-> keybindingsFile,
                    prev |-> [kind |-> event.kind, returned |-> event.returned,
                              wrote |-> event.wrote, before |-> event.before]]
  /\ UNCHANGED <<decVars, storeVars, tokenCounts, orchVars>>

KeysEnableHijack == KeysOp("enableHijack", EnableHijack(keybindingsFile))

KeysDisableHijack == KeysOp("disableHijack", DisableHijack(keybindingsFile))

NextKeys == KeysEnableHijack \/ KeysDisableHijack

SpecKeys == InitKeys /\ [][NextKeys]_vars

IsHijackEntry(kb) == WhenIncludesOllamaChat(kb) /\ kb.command.removed
OwnEntries(file) == SelectSeq(EntriesOf(file.lines), LAMBDA kb : ~IsHijackEntry(kb))

\* C39: enableHijack and disableHijack leave the entries of the file that are
\* not hijack entries as they were, whatever the file held; and a
\* disableHijack after an enableHijack on a file without hijack entries
\* gives back the entries the file had.
C39_OtherEntriesKept ==
  /\ event.kind \in {"enableHijack", "disableHijack"} =>
       OwnEntries(keybindingsFile) = OwnEntries(event.before)
  /\ (event.kind = "disableHijack" /\ event.returned
        /\ event.prev.kind = "enableHijack" /\ event.prev.returned
        /\ OwnEntries(event.prev.before) = EntriesOf(event.prev.before.lines)) =>
       EntriesOf(keybindingsFile.lines) = EntriesOf(event.prev.before.lines)

====
